---- MODULE Spec2Model ----
(***************************************************************************)
(* State-machine model of the multi-agent orchestration core:              *)
(*   agents/multi_agent/orchestrator.py   MultiAgent.run (the Coordinator) *)
(*   agents/multi_agent/tool_chat.py      ToolChatAgent.run                *)
(*   agents/multi_agent/coder.py          CoderTool                        *)
(*   agents/multi_agent/test_generator.py TestGenerator                    *)
(*   agents/multi_agent/researcher.py     ResearcherTool                   *)
(*   agents/tool_interface.py             RunShellTool, WriteFileTool      *)
(* The remote model, the shell and the lookup provider are the             *)
(* environment: their answers are drawn from small sets.                   *)
(***************************************************************************)
EXTENDS Integers, Sequences, FiniteSets, TLC

(***************************************************************************)
(* Bounds of the model.                                                    *)
(***************************************************************************)
\* the coordinator's step budget max_steps ranges over 1..MaxSteps
MaxSteps == 2
\* step budget of every nested loop (the code's defaults are 14, 10 and 15)
SubMaxSteps == 2
\* most tool calls one assistant turn carries
MaxCalls == 2
\* most tool calls the model emits in one run, all loops together; once
\* spent, the model answers with plain text only
MaxToolCalls == 2
\* the same for the runs in which the coordinator works on the deliverable
\* itself (SpecGate)
GateCalls == 4
\* tool calls in one assistant turn of the runs of SpecTurn
TurnCalls == 3
\* tool calls of a run of FairSpecLoop
LoopCalls == 4
\* tool calls the model emits in a run of SingleAgent (SpecSingle)
SingleCalls == 3

(***************************************************************************)
(* Names.                                                                  *)
(***************************************************************************)
Roles == {"coordinator", "coder", "test_generator", "researcher"}
ChatRoles == {"coder", "test_generator"}

\* tool names the model may put in a tool call; "foo" has no handler anywhere
ToolNames == {"call_coder", "call_researcher", "call_testgen", "run_shell",
              "write_file", "indicate_completion", "foo"}

\* classes of raw argument text
ArgKinds == {"bad_json", "null", "non_object", "missing", "wrong_type", "valid"}

\* files the completion gate may look at: the configured solver path and
\* another path inside the working directory
DeliverablePaths == {"solver", "alt"}
\* the files of the model: those, ("deep") the file a relative path is
\* taken for when it is resolved against the directory of "alt", a
\* subdirectory of the working directory, and ("outside") a file outside
\* the working directory
Locations == DeliverablePaths \cup {"deep", "outside"}
\* what a file at such a path is to the gate
FileContents == {"import_error", "load_error", "no_solve", "ready"}
FileStates == {"missing"} \cup FileContents

\* replies without tool calls: some text, an empty content, text that looks
\* like a hand-written tool call
TextKinds == {"text", "empty", "tool_json"}

NoArgs == [kind |-> "valid", path |-> "none", content |-> "none"]
NoCall == [id |-> 0, name |-> "none"]
\* no gate check yet
NoGate == [n |-> 0, path |-> "none", verdict |-> "none",
           prev_path |-> "none", prev_verdict |-> "none", changed |-> FALSE]

VARIABLES
    enable_researcher,  \* MultiAgent.enable_researcher
    enable_tester,      \* MultiAgent.enable_tester
    max_steps,          \* MultiAgent.max_steps
    own_logger,         \* own_logger = self.logger is None
    fs,                 \* the files at DeliverablePaths
    solver_path,        \* coder_tool.solver_path
    tg_solver_path,     \* test_generator.solver_path
    stack,              \* the loops that are active, the running one last
    pc,                 \* per role: where its loop stands
    inner,              \* per role: step_num / inner_step of its loop
    pend,               \* per role: tool calls of the turn not yet answered
    msgs,               \* per role: transcript (TestGenerator: self.history)
    final_text,         \* per role: final_text of its loop
    parent,             \* per role: step_num it was invoked with
    requests,           \* per role: model requests of the current invocation
    log,                \* logger.logs
    serialized,         \* number of logger.serialize() calls
    outcome,            \* how MultiAgent.run ended, or "running"
    fault,              \* what was raised out of MultiAgent.run
    returned,           \* value MultiAgent.run returned
    next_id,            \* next fresh tool_call id
    calls_emitted,      \* tool calls the model has emitted so far
    call_budget,        \* tool calls the model emits at most in this run
    last_gate,          \* history: the last two _has_top_level_solve calls
    dirty,              \* history: paths written or removed since the last gate check
    last                \* history: the step just taken and the state it started from

vars == <<enable_researcher, enable_tester, max_steps, own_logger, fs, solver_path,
          tg_solver_path, stack, pc, inner, pend, msgs, final_text, parent,
          requests, log, serialized, outcome, fault, returned, next_id,
          calls_emitted, call_budget, last_gate, dirty, last>>

config_vars == <<enable_researcher, enable_tester, max_steps, own_logger, call_budget>>

(***************************************************************************)
(* Messages, tool calls, log entries.                                      *)
(***************************************************************************)
Msg(role, content) ==
    [role |-> role, content |-> content, n |-> 0,
     tool_calls |-> <<>>, tool_call_id |-> 0]

\* f"Tool calls remaining: {remaining}. Emit a tool call now; ..."
GuidanceMsg(remaining) ==
    [role |-> "developer", content |-> "Tool calls remaining:", n |-> remaining,
     tool_calls |-> <<>>, tool_call_id |-> 0]

AssistantCalls(calls) ==
    [role |-> "assistant", content |-> "", n |-> 0,
     tool_calls |-> calls, tool_call_id |-> 0]

ToolMsg(id, content) ==
    [role |-> "tool", content |-> content, n |-> 0,
     tool_calls |-> <<>>, tool_call_id |-> id]

\* m.get("role") == "developer" and m["content"].startswith("Tool calls remaining:")
IsGuidance(m) == m.role = "developer" /\ m.content = "Tool calls remaining:"

\* step: the coordinator step (0: none); sub: the inner step of a dotted
\* step id "step.sub" (0: a flat id, -1: "step.final")
Event(event, subagent, step, sub) ==
    [event |-> event, subagent |-> subagent, step |-> step, sub |-> sub]

\* tool calls of one reply: fresh ids first, first + 1, ...
MakeCalls(names, first) ==
    [i \in 1..Len(names) |-> [id |-> first + i - 1, name |-> names[i]]]

CallSeqs(names) == UNION {[1..k -> names] : k \in 1..MaxCalls}

(***************************************************************************)
(* Raw argument texts, by tool.  A "valid" text carries what the handler   *)
(* reads from it: a path and, for a write, the kind of file written.       *)
(***************************************************************************)
MalformedArgs ==
    {[kind |-> k, path |-> "none", content |-> "none"] : k \in ArgKinds \ {"valid"}}

\* write_file: a deliverable path, another file of the working directory
\* ("aux"), a path that resolves outside the working directory, a path
\* write_text fails on
WriteFileArgs ==
    MalformedArgs
    \cup [kind : {"valid"}, path : {"solver"}, content : FileContents]
    \cup [kind : {"valid"}, path : {"alt"}, content : {"ready"}]
    \cup [kind : {"valid"}, path : {"aux", "outside", "unwritable"}, content : {"text"}]

\* run_shell: the command may leave the files alone or create, replace or
\* remove a file
RunShellArgs ==
    MalformedArgs \cup {NoArgs}
    \cup [kind : {"valid"}, path : {"solver"}, content : FileStates]
    \cup [kind : {"valid"}, path : {"alt"}, content : {"ready"}]

\* call_coder: no output_path, another path, a path whose parent directory
\* cannot be created
CoderArgs ==
    MalformedArgs \cup [kind : {"valid"}, path : {"none", "alt", "blocked"}, content : {"none"}]

TestgenArgs ==
    MalformedArgs \cup [kind : {"valid"}, path : DeliverablePaths, content : {"none"}]

ResearcherArgs == MalformedArgs \cup {NoArgs}

AnyArgs == MalformedArgs \cup {NoArgs}

(***************************************************************************)
(* Tool handlers shared by the loops.  A handler answers with a record:    *)
(* raise ("none", or the kind of exception that leaves the handler),       *)
(* content (the string it returns), fs (the files afterwards), events      *)
(* (what it logged).                                                       *)
(***************************************************************************)
Returns(content, files, events) ==
    [raise |-> "none", content |-> content, fs |-> files, events |-> events,
     wrote |-> {}]

\* a handler that wrote (or removed) the file at `path`
Wrote(content, path, state, events) ==
    [raise |-> "none", content |-> content, fs |-> [fs EXCEPT ![path] = state],
     events |-> events, wrote |-> {path}]

Raises(kind, events) ==
    [raise |-> kind, content |-> "", fs |-> fs, events |-> events, wrote |-> {}]

ToolError(step) == Event("tool_error", "new_agent", step, 0)
ToolStart(step) == Event("tool_start", "new_agent", step, 0)

\* RunShellTool.execute
RunShellExecute(a, step) ==
    CASE a.kind = "bad_json" ->
           Returns("Error: Invalid JSON in run_shell arguments", fs, <<ToolError(step)>>)
      [] a.kind = "null" ->
           \* json.loads(None): TypeError, not JSONDecodeError
           Raises("args", <<>>)
      [] a.kind = "non_object" ->
           Returns("Error: run_shell arguments must be a JSON object", fs, <<ToolError(step)>>)
      [] a.kind = "missing" ->
           Returns("Error: Must include cmd in call to run_shell", fs, <<ToolError(step)>>)
      [] a.kind = "wrong_type" ->
           \* cmd is a number: ShellInterface.run_command calls cmd.strip()
           Raises("args", <<ToolStart(step)>>)
      [] OTHER ->
           IF a.path \in DeliverablePaths
              THEN Wrote("shell output (exit_code)", a.path, a.content, <<ToolStart(step)>>)
              ELSE Returns("shell output (exit_code)", fs, <<ToolStart(step)>>)

\* no check of where the resolved target lies
InsideWorkdirAny(path) == TRUE

\* target = target.resolve(); target.relative_to(self.workdir) does not raise
InsideWorkdir(path) == path # "outside"

\* WriteFileTool.execute
WriteFileExecute(a, step) ==
    CASE a.kind = "bad_json" ->
           Returns("Error: Invalid JSON in write_file arguments", fs, <<ToolError(step)>>)
      [] a.kind = "null" ->
           Raises("args", <<>>)
      [] a.kind = "non_object" ->
           Returns("Error: write_file arguments must be a JSON object", fs, <<ToolError(step)>>)
      [] a.kind = "missing" ->
           Returns("Error: Must include path in call to write_file", fs, <<ToolError(step)>>)
      [] a.kind = "wrong_type" ->
           \* path is a number: Path(path) is outside the try block
           Raises("args", <<ToolStart(step)>>)
      [] a.kind = "valid" /\ (~InsideWorkdir(a.path) \/ a.path = "unwritable") ->
           \* target.relative_to(self.workdir) or target.write_text raises
           \* inside the try block
           Returns("Error writing file", fs, <<ToolStart(step)>>)
      [] a.kind = "valid" /\ a.path \in DeliverablePaths \cup {"outside"} ->
           Wrote("Wrote bytes", a.path, a.content, <<ToolStart(step)>>)
      [] OTHER ->
           Returns("Wrote bytes", fs, <<ToolStart(step)>>)

(***************************************************************************)
(* The completion gate.                                                    *)
(***************************************************************************)
\* the gate without `callable(solve_fn)`: any module that loads passes
HasTopLevelSolveNoCallableTest(path) ==
    CASE fs[path] = "missing" ->
           [ok |-> FALSE, err |-> "Solver not found. Use call_coder to create it first."]
      [] fs[path] = "import_error" ->
           [ok |-> FALSE, err |-> "Failed to import solver due to missing dependency"]
      [] fs[path] = "load_error" ->
           [ok |-> FALSE, err |-> "Failed to import solver"]
      [] OTHER ->
           [ok |-> TRUE, err |-> ""]

\* the gate without `if not path.exists()`: the load of a missing file fails
HasTopLevelSolveNoExistsTest(path) ==
    CASE fs[path] \in {"missing", "load_error"} ->
           [ok |-> FALSE, err |-> "Failed to import solver"]
      [] fs[path] = "import_error" ->
           [ok |-> FALSE, err |-> "Failed to import solver due to missing dependency"]
      [] fs[path] = "no_solve" ->
           [ok |-> FALSE, err |-> "Solver must export a module-level callable solve(problem). Add: solve = Solver().solve"]
      [] OTHER ->
           [ok |-> TRUE, err |-> ""]

\* the gate with the generic diagnostic for a module without solve
HasTopLevelSolveVagueDiagnostic(path) ==
    CASE fs[path] = "missing" ->
           [ok |-> FALSE, err |-> "Solver not found. Use call_coder to create it first."]
      [] fs[path] = "import_error" ->
           [ok |-> FALSE, err |-> "Failed to import solver due to missing dependency"]
      [] fs[path] \in {"load_error", "no_solve"} ->
           [ok |-> FALSE, err |-> "Failed to import solver"]
      [] OTHER ->
           [ok |-> TRUE, err |-> ""]

\* a gate that remembers: it lets a module without solve pass the second time
HasTopLevelSolveRemembers(path) ==
    CASE fs[path] = "missing" ->
           [ok |-> FALSE, err |-> "Solver not found. Use call_coder to create it first."]
      [] fs[path] = "import_error" ->
           [ok |-> FALSE, err |-> "Failed to import solver due to missing dependency"]
      [] fs[path] = "load_error" ->
           [ok |-> FALSE, err |-> "Failed to import solver"]
      [] fs[path] = "no_solve" /\ last_gate.n = 0 ->
           [ok |-> FALSE, err |-> "Solver must export a module-level callable solve(problem). Add: solve = Solver().solve"]
      [] OTHER ->
           [ok |-> TRUE, err |-> ""]

\* a gate that keeps its rejection of a module without solve
HasTopLevelSolveSticky(path) ==
    CASE fs[path] = "missing" ->
           [ok |-> FALSE, err |-> "Solver not found. Use call_coder to create it first."]
      [] fs[path] = "import_error" ->
           [ok |-> FALSE, err |-> "Failed to import solver due to missing dependency"]
      [] fs[path] = "load_error" ->
           [ok |-> FALSE, err |-> "Failed to import solver"]
      [] \/ fs[path] = "no_solve"
         \/ last_gate.verdict = "Solver must export a module-level callable solve(problem). Add: solve = Solver().solve" ->
           [ok |-> FALSE, err |-> "Solver must export a module-level callable solve(problem). Add: solve = Solver().solve"]
      [] OTHER ->
           [ok |-> TRUE, err |-> ""]

\* _has_top_level_solve(path) -> (ok, err_msg)
HasTopLevelSolve(path) ==
    CASE fs[path] = "missing" ->
           [ok |-> FALSE, err |-> "Solver not found. Use call_coder to create it first."]
      [] fs[path] = "import_error" ->
           [ok |-> FALSE, err |-> "Failed to import solver due to missing dependency"]
      [] fs[path] = "load_error" ->
           [ok |-> FALSE, err |-> "Failed to import solver"]
      [] fs[path] = "no_solve" ->
           [ok |-> FALSE, err |-> "Solver must export a module-level callable solve(problem). Add: solve = Solver().solve"]
      [] OTHER ->
           [ok |-> TRUE, err |-> ""]

\* f"Cannot complete: {err_msg}\n\nFix the issue before calling indicate_completion again."
CannotComplete(err) == "Cannot complete: " \o err

(***************************************************************************)
(* Initial state: MultiAgent.run up to its loop.                           *)
(***************************************************************************)
InitWith(toggles, budget, owners) ==
    /\ enable_researcher \in toggles
    /\ enable_tester \in toggles
    /\ max_steps \in 1..MaxSteps
    /\ call_budget = budget
    \* own_logger = self.logger is None
    /\ own_logger \in owners
    /\ fs = [p \in Locations |-> "missing"]
    /\ solver_path = "solver"
    /\ tg_solver_path = "solver"
    /\ stack = <<"coordinator">>
    /\ pc = [r \in Roles |-> IF r = "coordinator" THEN "loop" ELSE "idle"]
    /\ inner = [r \in Roles |-> 0]
    /\ pend = [r \in Roles |-> <<>>]
    /\ msgs = [r \in Roles |->
                 IF r = "coordinator" THEN <<Msg("developer", "system_prompt")>> ELSE <<>>]
    /\ final_text = [r \in Roles |-> ""]
    /\ parent = [r \in Roles |-> 0]
    /\ requests = [r \in Roles |-> 0]
    /\ log = <<Event("start_agent", "coordinator", 0, 0)>>
    /\ serialized = 0
    /\ outcome = "running"
    /\ fault = "none"
    /\ returned = "none"
    /\ next_id = 1
    /\ calls_emitted = 0
    /\ last_gate = NoGate
    /\ dirty = {}
    /\ last = [act |-> "Init", role |-> "coordinator", call |-> NoCall, arg |-> NoArgs,
               len |-> 0, fs |-> [p \in Locations |-> "missing"],
               path |-> "solver", gates |-> 0]

\* the run creates its own Logger (scripts/run_batch.py passes none)
InitRun(toggles, budget) == InitWith(toggles, budget, {TRUE})

\* a run with either role enabled or not
Init == InitRun(BOOLEAN, MaxToolCalls)

\* the step an action takes from the current state: its name, the loop that
\* takes it, the tool call and argument text it handles, and what the
\* length of that loop's transcript, the files, the deliverable path and
\* the number of gate checks were before
Did(act, r, a) ==
    [act |-> act, role |-> r,
     call |-> IF pc[r] = "dispatch" /\ pend[r] # <<>> THEN Head(pend[r]) ELSE NoCall,
     arg |-> a, len |-> Len(msgs[r]), fs |-> fs, path |-> solver_path,
     gates |-> last_gate.n]

Top == stack[Len(stack)]
Running(r) == outcome = "running" /\ stack # <<>> /\ Top = r

\* an exception leaves MultiAgent.run: every active loop is unwound
Raise(kind, events) ==
    /\ outcome' = "raised"
    /\ fault' = kind
    /\ stack' = <<>>
    /\ log' = log \o events
    /\ UNCHANGED <<config_vars, fs, solver_path, tg_solver_path, pc, inner, pend,
                   msgs, final_text, parent, requests, serialized, returned,
                   next_id, calls_emitted, last_gate, dirty>>

env_vars == <<next_id, calls_emitted>>
end_vars == <<outcome, fault, returned, serialized>>
path_vars == <<solver_path, tg_solver_path>>

\* the step budget of a loop
Budget(r) == IF r = "coordinator" THEN max_steps ELSE SubMaxSteps

\* range(1, max_steps + 2): one iteration too many
MoreStepsOffByOne(r) == inner[r] < Budget(r) + 1

\* for step in range(1, max_steps + 1): another iteration follows
MoreSteps(r) == inner[r] < Budget(r)

\* the update of logs / transcripts when loop c gets the result of the tool
\* call it is dispatching (the first of pend[c])
CurCall(c) == Head(pend[c])
LastCall(c) == Len(pend[c]) = 1

\* tool_to_phase.get(name, name)
Phase(name) ==
    CASE name = "run_shell" -> "run_shell"
      [] name = "write_file" -> "write_file"
      [] name = "call_coder" -> "coder"
      [] name = "indicate_completion" -> "coordinator"
      [] name = "call_researcher" /\ enable_researcher -> "researcher"
      [] name = "call_testgen" /\ enable_tester -> "test_generator"
      [] OTHER -> name

\* what the coordinator logs before it runs the handler of a tool call
CallEvents(name) ==
    <<Event("tool_call", Phase(name), inner["coordinator"], 0)>>
    \o (IF name \in {"call_researcher", "call_coder", "call_testgen"}
           THEN <<Event("start_subagent", Phase(name), inner["coordinator"], 0)>>
           ELSE <<>>)

\* what loop c logs once the handler has returned: the coordinator logs
\* tool_return and, after the last call of the turn, step_summary;
\* ToolChatAgent.run logs nothing
ReturnEvents(c) ==
    IF c = "coordinator"
       THEN <<Event("tool_return", CurCall(c).name, inner[c], 0)>>
            \o (IF LastCall(c)
                   THEN <<Event("step_summary", "coordinator", inner[c], 0)>>
                   ELSE <<>>)
       ELSE <<>>

\* the tool result of an unknown tool is dropped
AnsweredKnownOnly(c, content) ==
    IF content = "Unknown tool: foo" THEN msgs[c]
    ELSE Append(msgs[c], ToolMsg(CurCall(c).id, content))

\* messages.append({"role": "tool", "tool_call_id": ..., "content": content})
Answered(c, content) == Append(msgs[c], ToolMsg(CurCall(c).id, content))

\* after the last call of the turn the loop goes to its next iteration
NextPc(c) == IF LastCall(c) THEN "loop" ELSE "dispatch"

\* the events of the handler are put in front of the log
AnswerLogsFirst(c, content, events) ==
    /\ msgs' = [msgs EXCEPT ![c] = Answered(c, content)]
    /\ pend' = [pend EXCEPT ![c] = Tail(@)]
    /\ pc' = [pc EXCEPT ![c] = NextPc(c)]
    /\ log' = events \o ReturnEvents(c) \o log

\* loop c appends the tool result and goes on
Answer(c, content, events) ==
    /\ msgs' = [msgs EXCEPT ![c] = Answered(c, content)]
    /\ pend' = [pend EXCEPT ![c] = Tail(@)]
    /\ pc' = [pc EXCEPT ![c] = NextPc(c)]
    /\ log' = log \o events \o ReturnEvents(c)

\* the nested loop r returns `content` to its caller, the loop below it
Caller == stack[Len(stack) - 1]
ReturnTo(r, content, events) ==
    /\ msgs' = [msgs EXCEPT ![Caller] = Answered(Caller, content)]
    /\ pend' = [pend EXCEPT ![Caller] = Tail(@)]
    /\ pc' = [pc EXCEPT ![Caller] = NextPc(Caller), ![r] = "idle"]
    /\ log' = log \o events \o ReturnEvents(Caller)
    /\ stack' = SubSeq(stack, 1, Len(stack) - 1)

\* the outcome of a handler that runs no nested loop: its exception leaves
\* the run, its string is appended as the tool result
Handled(c, r, pre) ==
    IF r.raise # "none"
       THEN Raise(r.raise, pre \o r.events)
       ELSE /\ Answer(c, r.content, pre \o r.events)
            /\ fs' = r.fs
            /\ dirty' = dirty \cup r.wrote
            /\ UNCHANGED <<config_vars, path_vars, stack, inner, final_text, parent,
                           requests, end_vars, env_vars, last_gate>>

(***************************************************************************)
(* The Coordinator: MultiAgent.run.                                        *)
(***************************************************************************)
\* tools: the definitions passed with each model request of the coordinator
OfferedTools ==
    <<"run_shell">>
    \o (IF enable_researcher THEN <<"call_researcher">> ELSE <<>>)
    \o <<"call_coder">>
    \o (IF enable_tester THEN <<"call_testgen">> ELSE <<>>)
    \o <<"indicate_completion">>

\* no pruning: the old guidance messages stay
PrunedNothing(ms) == ms

\* the transcript without earlier "Tool calls remaining:" messages
Pruned(ms) == SelectSeq(ms, LAMBDA m : ~IsGuidance(m))

\* the calls left once this step is over
RemainingAfter(step_num) == max_steps - step_num

\* remaining = self.max_steps - step_num + 1
Remaining(step_num) == max_steps - step_num + 1

\* one iteration up to the model request: step_start, pruning, the fresh
\* guidance message, client.chat.completions.create(...)
CoordStepStart ==
    /\ last' = Did("CoordStepStart", "coordinator", NoArgs)
    /\ Running("coordinator") /\ pc["coordinator"] = "loop"
    /\ MoreSteps("coordinator")
    /\ inner' = [inner EXCEPT !["coordinator"] = @ + 1]
    /\ msgs' = [msgs EXCEPT !["coordinator"] =
                  Append(Pruned(@), GuidanceMsg(Remaining(inner["coordinator"] + 1)))]
    /\ requests' = [requests EXCEPT !["coordinator"] = @ + 1]
    /\ pc' = [pc EXCEPT !["coordinator"] = "await"]
    /\ log' = Append(log, Event("step_start", "coordinator", inner["coordinator"] + 1, 0))
    /\ UNCHANGED <<config_vars, fs, path_vars, stack, pend, final_text, parent,
                   end_vars, env_vars, last_gate, dirty>>

\* the model request fails (network, auth): nothing catches it
CoordReplyFault ==
    /\ last' = Did("CoordReplyFault", "coordinator", NoArgs)
    /\ Running("coordinator") /\ pc["coordinator"] = "await"
    /\ Raise("transport", <<>>)

\* text = message.content or "No content produced."
CoordText(kind) ==
    CASE kind = "empty" -> "No content produced."
      [] kind = "tool_json" -> "{ \"tool\": ... }"
      [] OTHER -> "text"

\* tool_descriptions: the tools the corrective instruction lists
ToolDescriptions ==
    (IF enable_researcher THEN "- call_researcher " ELSE "")
    \o "- call_coder "
    \o (IF enable_tester THEN "- call_testgen " ELSE "")
    \o "- run_shell - indicate_completion"

\* error_prompt, with the prefix for text that looks like a tool call
ErrorPrompt(kind) ==
    (IF kind = "tool_json" THEN "ERROR: Plain JSON is not a valid tool call. " ELSE "")
    \o "ERROR: You must emit real tool calls using the available tools. Available tools: "
    \o ToolDescriptions

\* the plain-text branch without the corrective message
CoordReplyTextUncorrected(kind) ==
    /\ last' = Did("CoordReplyText", "coordinator", NoArgs)
    /\ Running("coordinator") /\ pc["coordinator"] = "await"
    /\ msgs' = [msgs EXCEPT !["coordinator"] = Append(@, Msg("assistant", CoordText(kind)))]
    /\ log' = log \o <<Event("llm_response", "coordinator", inner["coordinator"], 0),
                       Event("warning_no_tool_call", "coordinator", inner["coordinator"], 0)>>
    /\ pc' = [pc EXCEPT !["coordinator"] = "loop"]
    /\ UNCHANGED <<config_vars, fs, path_vars, stack, inner, pend, final_text, parent,
                   requests, end_vars, env_vars, last_gate, dirty>>

\* if not message.tool_calls: ... continue
CoordReplyText(kind) ==
    /\ last' = Did("CoordReplyText", "coordinator", NoArgs)
    /\ Running("coordinator") /\ pc["coordinator"] = "await"
    /\ msgs' = [msgs EXCEPT !["coordinator"] =
                  @ \o <<Msg("assistant", CoordText(kind)), Msg("user", ErrorPrompt(kind))>>]
    /\ log' = log \o <<Event("llm_response", "coordinator", inner["coordinator"], 0),
                       Event("warning_no_tool_call", "coordinator", inner["coordinator"], 0)>>
    /\ pc' = [pc EXCEPT !["coordinator"] = "loop"]
    /\ UNCHANGED <<config_vars, fs, path_vars, stack, inner, pend, final_text, parent,
                   requests, end_vars, env_vars, last_gate, dirty>>

\* messages.append({"role": "assistant", "tool_calls": message.tool_calls})
CoordReplyCalls(names) ==
    /\ last' = Did("CoordReplyCalls", "coordinator", NoArgs)
    /\ Running("coordinator") /\ pc["coordinator"] = "await"
    /\ calls_emitted + Len(names) <= call_budget
    /\ LET calls == MakeCalls(names, next_id) IN
         /\ msgs' = [msgs EXCEPT !["coordinator"] = Append(@, AssistantCalls(calls))]
         /\ pend' = [pend EXCEPT !["coordinator"] = calls]
    /\ next_id' = next_id + Len(names)
    /\ calls_emitted' = calls_emitted + Len(names)
    /\ log' = Append(log, Event("llm_response", "coordinator", inner["coordinator"], 0))
    /\ pc' = [pc EXCEPT !["coordinator"] = "dispatch"]
    /\ UNCHANGED <<config_vars, fs, path_vars, stack, inner, final_text, parent,
                   requests, end_vars, last_gate, dirty>>

\* the coordinator is about to run the handler of tool `name`
CoordAt(name) ==
    /\ Running("coordinator") /\ pc["coordinator"] = "dispatch"
    /\ CurCall("coordinator").name = name

\* name == "write_file"
CoordWriteFile(a) ==
    /\ last' = Did("CoordWriteFile", "coordinator", a)
    /\ CoordAt("write_file")
    /\ Handled("coordinator", WriteFileExecute(a, inner["coordinator"]), CallEvents("write_file"))

\* name == "run_shell"
CoordRunShell(a) ==
    /\ last' = Did("CoordRunShell", "coordinator", a)
    /\ CoordAt("run_shell")
    /\ Handled("coordinator", RunShellExecute(a, inner["coordinator"]), CallEvents("run_shell"))

\* else: content = f"Unknown tool: {name}"
CoordUnknownTool ==
    /\ last' = Did("CoordUnknownTool", "coordinator", NoArgs)
    /\ Running("coordinator") /\ pc["coordinator"] = "dispatch"
    /\ CurCall("coordinator").name \notin
         {"write_file", "run_shell", "call_researcher", "call_coder", "call_testgen",
          "indicate_completion"}
    /\ Handled("coordinator",
               Returns("Unknown tool: " \o CurCall("coordinator").name, fs, <<>>),
               CallEvents(CurCall("coordinator").name))

\* the run writes the log whoever owns the logger
SerializedAlways == serialized + 1

\* if own_logger: logger.serialize()
Serialized == IF own_logger THEN serialized + 1 ELSE serialized

\* the gate looks at the path the TestGenerator was last given
GateTargetOfTestgen == tg_solver_path

\* target = coder_tool.solver_path
GateTarget == solver_path

\* the ready verdict is answered like any other tool result and the loop
\* goes on with the next call of the turn
CompleteAndGoOn(target) ==
    /\ Answer("coordinator", "Solver ready. Completing run.",
              CallEvents("indicate_completion")
                 \o <<Event("done", "coordinator", inner["coordinator"], 0)>>)
    /\ serialized' = Serialized
    /\ UNCHANGED <<outcome, returned, fault, stack>>

\* if ok: the done event, serialize, the tool message, return target
Complete(target) ==
    /\ log' = log \o CallEvents("indicate_completion")
                  \o <<Event("done", "coordinator", inner["coordinator"], 0)>>
    /\ serialized' = Serialized
    /\ msgs' = [msgs EXCEPT !["coordinator"] =
                  Answered("coordinator", "Solver ready. Completing run.")]
    /\ outcome' = "done"
    /\ returned' = target
    /\ stack' = <<>>
    /\ UNCHANGED <<pend, pc, fault>>

\* name == "indicate_completion": the gate on coder_tool.solver_path; the
\* raw arguments `a` are parsed for the log only
CoordIndicateCompletion(a) ==
    /\ last' = Did("CoordIndicateCompletion", "coordinator", a)
    /\ CoordAt("indicate_completion")
    /\ LET target == GateTarget
           gate == HasTopLevelSolve(target)
       IN
         /\ last_gate' = [n |-> last_gate.n + 1, path |-> target,
                          verdict |-> IF gate.ok THEN "ready" ELSE gate.err,
                          prev_path |-> last_gate.path,
                          prev_verdict |-> last_gate.verdict,
                          changed |-> target \in dirty]
         /\ dirty' = {}
         /\ IF gate.ok
               THEN Complete(target)
               ELSE /\ Answer("coordinator", CannotComplete(gate.err),
                              CallEvents("indicate_completion"))
                    /\ UNCHANGED <<end_vars, stack>>
    /\ UNCHANGED <<config_vars, fs, path_vars, inner, final_text, parent, requests, env_vars>>

\* the path is returned only if the gate would accept the file
BestAvailableGated == IF HasTopLevelSolve(solver_path).ok THEN solver_path ELSE "None"

\* coder_tool.solver_path if coder_tool.solver_path.exists() else None
BestAvailable == IF fs[solver_path] # "missing" THEN solver_path ELSE "None"

\* the for loop is over: max_steps event, serialize, return the path or None
CoordExhausted ==
    /\ last' = Did("CoordExhausted", "coordinator", NoArgs)
    /\ Running("coordinator") /\ pc["coordinator"] = "loop"
    /\ ~MoreSteps("coordinator")
    /\ log' = Append(log, Event("max_steps", "coordinator", 0, 0))
    /\ serialized' = Serialized
    /\ outcome' = "max_steps"
    /\ returned' = BestAvailable
    /\ stack' = <<>>
    /\ UNCHANGED <<config_vars, fs, path_vars, pc, inner, pend, msgs, final_text,
                   parent, requests, fault, env_vars, last_gate, dirty>>

(***************************************************************************)
(* ToolChatAgent.run, the loop of the Coder and of the TestGenerator.      *)
(***************************************************************************)
\* every ToolChatAgent loop goes on with the transcript of its last run
StartChatCarryOver(r, c, base, events) ==
    /\ stack' = Append(stack, r)
    /\ pc' = [pc EXCEPT ![c] = "blocked", ![r] = "loop"]
    /\ msgs' = [msgs EXCEPT ![r] = Append(msgs[r], Msg("developer", "prompt"))]
    /\ inner' = [inner EXCEPT ![r] = 0]
    /\ requests' = [requests EXCEPT ![r] = 0]
    /\ final_text' = [final_text EXCEPT ![r] = ""]
    /\ parent' = [parent EXCEPT ![r] = inner["coordinator"]]
    /\ log' = log \o events \o <<Event("subagent_prompt", r, inner["coordinator"], 0)>>

\* the caller is not held while the nested loop runs
StartChatUnblocked(r, c, base, events) ==
    /\ stack' = Append(stack, r)
    /\ pc' = [pc EXCEPT ![r] = "loop"]
    /\ msgs' = [msgs EXCEPT ![r] = Append(base, Msg("developer", "prompt"))]
    /\ inner' = [inner EXCEPT ![r] = 0]
    /\ requests' = [requests EXCEPT ![r] = 0]
    /\ final_text' = [final_text EXCEPT ![r] = ""]
    /\ parent' = [parent EXCEPT ![r] = inner["coordinator"]]
    /\ log' = log \o events \o <<Event("subagent_prompt", r, inner["coordinator"], 0)>>

\* a run whose nested loops all log under parent step 1
StartChatFixedParent(r, c, base, events) ==
    /\ stack' = Append(stack, r)
    /\ pc' = [pc EXCEPT ![c] = "blocked", ![r] = "loop"]
    /\ msgs' = [msgs EXCEPT ![r] = Append(base, Msg("developer", "prompt"))]
    /\ inner' = [inner EXCEPT ![r] = 0]
    /\ requests' = [requests EXCEPT ![r] = 0]
    /\ final_text' = [final_text EXCEPT ![r] = ""]
    /\ parent' = [parent EXCEPT ![r] = 1]
    /\ log' = log \o events \o <<Event("subagent_prompt", r, inner["coordinator"], 0)>>

\* a run that starts every invocation on an empty transcript
StartChatFresh(r, c, base, events) ==
    /\ stack' = Append(stack, r)
    /\ pc' = [pc EXCEPT ![c] = "blocked", ![r] = "loop"]
    /\ msgs' = [msgs EXCEPT ![r] = <<Msg("developer", "prompt")>>]
    /\ inner' = [inner EXCEPT ![r] = 0]
    /\ requests' = [requests EXCEPT ![r] = 0]
    /\ final_text' = [final_text EXCEPT ![r] = ""]
    /\ parent' = [parent EXCEPT ![r] = inner["coordinator"]]
    /\ log' = log \o events \o <<Event("subagent_prompt", r, inner["coordinator"], 0)>>

\* self.agent.run(prompt, step_num, messages): the prompt is logged and
\* appended to `base`, the loop starts
StartChat(r, c, base, events) ==
    /\ stack' = Append(stack, r)
    /\ pc' = [pc EXCEPT ![c] = "blocked", ![r] = "loop"]
    /\ msgs' = [msgs EXCEPT ![r] = Append(base, Msg("developer", "prompt"))]
    /\ inner' = [inner EXCEPT ![r] = 0]
    /\ requests' = [requests EXCEPT ![r] = 0]
    /\ final_text' = [final_text EXCEPT ![r] = ""]
    /\ parent' = [parent EXCEPT ![r] = inner["coordinator"]]
    /\ log' = log \o events \o <<Event("subagent_prompt", r, inner["coordinator"], 0)>>

\* target = Path(output_path_raw) if output_path_raw else self.solver_path;
\* target = (self.solver_path.parent / target).resolve(). The configured
\* solver lies in the working directory itself, so the first relative path
\* is taken from there; once self.solver_path is in a subdirectory a
\* relative path is taken from that subdirectory
CoderTarget(a) ==
    CASE a.path = "none" -> solver_path
      [] solver_path = "solver" -> a.path
      [] OTHER -> "deep"

\* target = (self.workdir / target).resolve()
TestgenTarget(a) == a.path

\* CoderTool.execute without `except json.JSONDecodeError`
CoordCallCoderUncaught(a) ==
    /\ last' = Did("CoordCallCoder", "coordinator", a)
    /\ CoordAt("call_coder")
    /\ CASE a.kind \in {"null", "missing"} ->
              Handled("coordinator",
                      Returns("Error: 'approach' parameter is required for call_coder", fs, <<>>),
                      CallEvents("call_coder"))
         [] a.kind \in {"bad_json", "non_object", "wrong_type"} ->
              Raise("args", CallEvents("call_coder"))
         [] a.kind = "valid" /\ a.path = "blocked" ->
              Raise("handler", CallEvents("call_coder"))
         [] OTHER ->
              /\ solver_path' = CoderTarget(a)
              /\ StartChat("coder", "coordinator", <<>>, CallEvents("call_coder"))
              /\ UNCHANGED <<config_vars, fs, tg_solver_path, pend, end_vars, env_vars,
                             last_gate, dirty>>

\* CoderTool.execute up to self.agent.run
CoordCallCoder(a) ==
    /\ last' = Did("CoordCallCoder", "coordinator", a)
    /\ CoordAt("call_coder")
    /\ CASE a.kind = "bad_json" ->
              Handled("coordinator",
                      Returns("Error: Invalid JSON in call_coder arguments", fs, <<>>),
                      CallEvents("call_coder"))
         [] a.kind \in {"null", "missing"} ->
              Handled("coordinator",
                      Returns("Error: 'approach' parameter is required for call_coder", fs, <<>>),
                      CallEvents("call_coder"))
         [] a.kind \in {"non_object", "wrong_type"} ->
              \* args.get on a list, .strip() on a number
              Raise("args", CallEvents("call_coder"))
         [] a.kind = "valid" /\ a.path = "blocked" ->
              \* target.parent.mkdir(parents=True, exist_ok=True) fails
              Raise("handler", CallEvents("call_coder"))
         [] OTHER ->
              /\ solver_path' = CoderTarget(a)
              /\ StartChat("coder", "coordinator", <<>>, CallEvents("call_coder"))
              /\ UNCHANGED <<config_vars, fs, tg_solver_path, pend, end_vars, env_vars,
                             last_gate, dirty>>

\* TestGenerator.execute up to self.agent.run
CoordCallTestgen(a) ==
    /\ last' = Did("CoordCallTestgen", "coordinator", a)
    /\ CoordAt("call_testgen")
    /\ CASE ~enable_tester ->
              Handled("coordinator",
                      Returns("Error: Test generator not available in this configuration", fs, <<>>),
                      CallEvents("call_testgen"))
         [] enable_tester /\ a.kind = "bad_json" ->
              Handled("coordinator",
                      Returns("Error: Invalid JSON in call_testgen arguments", fs, <<>>),
                      CallEvents("call_testgen"))
         [] enable_tester /\ a.kind \in {"null", "missing", "wrong_type"} ->
              Handled("coordinator",
                      Returns("Error: solver_path is required for call_testgen", fs, <<>>),
                      CallEvents("call_testgen"))
         [] enable_tester /\ a.kind = "non_object" ->
              \* parsed.get on a list: AttributeError, not JSONDecodeError
              Raise("args", CallEvents("call_testgen"))
         [] OTHER ->
              /\ tg_solver_path' = TestgenTarget(a)
              /\ StartChat("test_generator", "coordinator", msgs["test_generator"],
                           CallEvents("call_testgen"))
              /\ UNCHANGED <<config_vars, fs, solver_path, pend, end_vars, env_vars,
                             last_gate, dirty>>

\* one iteration up to the model request
ChatRequest(r) ==
    /\ last' = Did("ChatRequest", r, NoArgs)
    /\ Running(r) /\ pc[r] = "loop"
    /\ MoreSteps(r)
    /\ inner' = [inner EXCEPT ![r] = @ + 1]
    /\ requests' = [requests EXCEPT ![r] = @ + 1]
    /\ pc' = [pc EXCEPT ![r] = "await"]
    /\ log' = Append(log, Event("llm_call", r, parent[r], inner[r] + 1))
    /\ UNCHANGED <<config_vars, fs, path_vars, stack, pend, msgs, final_text, parent,
                   end_vars, env_vars, last_gate, dirty>>

\* the model request fails: ToolChatAgent.run, the execute above it and
\* MultiAgent.run all let the exception through
ChatReplyFault(r) ==
    /\ last' = Did("ChatReplyFault", r, NoArgs)
    /\ Running(r) /\ pc[r] = "await"
    /\ Raise("transport", <<>>)

\* final_text = message.content or ""; append; break
ChatReplyText(r, kind) ==
    /\ last' = Did("ChatReplyText", r, NoArgs)
    /\ Running(r) /\ pc[r] = "await"
    /\ LET text == IF kind = "empty" THEN "" ELSE "text" IN
         /\ final_text' = [final_text EXCEPT ![r] = text]
         /\ msgs' = [msgs EXCEPT ![r] = Append(@, Msg("assistant", text))]
    /\ pc' = [pc EXCEPT ![r] = "return"]
    /\ log' = Append(log, Event("llm_response", r, parent[r], inner[r]))
    /\ UNCHANGED <<config_vars, fs, path_vars, stack, inner, pend, parent, requests,
                   end_vars, env_vars, last_gate, dirty>>

\* if message.tool_calls: append the assistant message, then the handlers
ChatReplyCalls(r, names) ==
    /\ last' = Did("ChatReplyCalls", r, NoArgs)
    /\ Running(r) /\ pc[r] = "await"
    /\ calls_emitted + Len(names) <= call_budget
    /\ LET calls == MakeCalls(names, next_id) IN
         /\ msgs' = [msgs EXCEPT ![r] = Append(@, AssistantCalls(calls))]
         /\ pend' = [pend EXCEPT ![r] = calls]
    /\ next_id' = next_id + Len(names)
    /\ calls_emitted' = calls_emitted + Len(names)
    /\ pc' = [pc EXCEPT ![r] = "dispatch"]
    /\ log' = Append(log, Event("llm_response", r, parent[r], inner[r]))
    /\ UNCHANGED <<config_vars, fs, path_vars, stack, inner, final_text, parent,
                   requests, end_vars, last_gate, dirty>>

\* the TestGenerator gets the call_researcher handler as well
HandlersResearcherForAll(r) ==
    {"write_file", "run_shell"}
    \cup (IF enable_researcher THEN {"call_researcher"} ELSE {})

\* the Coder registers call_researcher whatever the toggle says
HandlersIgnoreToggle(r) ==
    {"write_file", "run_shell"}
    \cup (IF r = "coder" THEN {"call_researcher"} ELSE {})

\* self.tool_handlers of the role's ToolChatAgent
Handlers(r) ==
    {"write_file", "run_shell"}
    \cup (IF r = "coder" /\ enable_researcher THEN {"call_researcher"} ELSE {})

\* tools: the definitions the role's ToolChatAgent passes with each request;
\* each is appended together with its handler
ChatTools(r) == Handlers(r)

ChatAt(r, name) ==
    /\ Running(r) /\ pc[r] = "dispatch"
    /\ CurCall(r).name = name
    /\ name \in Handlers(r)

\* handler(tc, step_num) for write_file
ChatWriteFile(r, a) ==
    /\ last' = Did("ChatWriteFile", r, a)
    /\ ChatAt(r, "write_file")
    /\ Handled(r, WriteFileExecute(a, parent[r]), <<>>)

\* handler(tc, step_num) for run_shell
ChatRunShell(r, a) ==
    /\ last' = Did("ChatRunShell", r, a)
    /\ ChatAt(r, "run_shell")
    /\ Handled(r, RunShellExecute(a, parent[r]), <<>>)

\* an answer that does not name the tool
ChatUnknownToolUnnamed(r) ==
    /\ last' = Did("ChatUnknownTool", r, NoArgs)
    /\ Running(r) /\ pc[r] = "dispatch"
    /\ CurCall(r).name \notin Handlers(r)
    /\ Handled(r, Returns("Unknown tool", fs, <<>>), <<>>)

\* f"Unknown tool: {tc.function.name}"
ChatUnknownTool(r) ==
    /\ last' = Did("ChatUnknownTool", r, NoArgs)
    /\ Running(r) /\ pc[r] = "dispatch"
    /\ CurCall(r).name \notin Handlers(r)
    /\ Handled(r, Returns("Unknown tool: " \o CurCall(r).name, fs, <<>>), <<>>)

\* the string execute makes of the text ToolChatAgent.run returned
ResultText(r, text) ==
    IF r = "coder"
       THEN (IF fs[solver_path] # "missing"
                THEN "Coder finished. exists=True. Notes: " \o text
                ELSE "Coder finished. exists=False. Notes: " \o text
                     \o " WARNING: The solver file was not created.")
       ELSE (IF text = "" THEN "No summary produced." ELSE text)

\* the string execute hands back once ToolChatAgent.run has returned
ChatResult(r) == ResultText(r, final_text[r])

\* return final_text, after the break or once the budget is spent
ChatReturn(r) ==
    /\ last' = Did("ChatReturn", r, NoArgs)
    /\ Running(r)
    /\ pc[r] = "return" \/ (pc[r] = "loop" /\ ~MoreSteps(r))
    /\ ReturnTo(r, ChatResult(r), <<>>)
    /\ UNCHANGED <<config_vars, fs, path_vars, inner, final_text, parent, requests,
                   end_vars, env_vars, last_gate, dirty>>

(***************************************************************************)
(* The Researcher: ResearcherTool.execute and _run_researcher.             *)
(***************************************************************************)
\* ResearcherTool.execute up to _run_researcher, called by loop c
ResearcherExecute(c, a, events) ==
    CASE a.kind \in {"bad_json", "null"} ->
           \* _safe_json_load gives {} and `not args` holds
           Handled(c, Returns("Error: Invalid JSON in call_researcher arguments", fs, <<>>),
                   events)
      [] a.kind = "missing" ->
           \* an object without "query", such as {"libraries": [...]}
           Handled(c, Returns("Error: 'query' parameter is required for call_researcher",
                              fs, <<>>),
                   events)
      [] a.kind \in {"non_object", "wrong_type"} ->
           \* args.get on a list, .strip() on a number: outside the try block
           Raise("args", events)
      [] OTHER ->
           /\ stack' = Append(stack, "researcher")
           /\ pc' = [pc EXCEPT ![c] = "blocked", !["researcher"] = "connect"]
           /\ msgs' = [msgs EXCEPT !["researcher"] = <<Msg("developer", "prompt")>>]
           /\ inner' = [inner EXCEPT !["researcher"] = 0]
           /\ requests' = [requests EXCEPT !["researcher"] = 0]
           /\ final_text' = [final_text EXCEPT !["researcher"] = ""]
           /\ parent' = [parent EXCEPT !["researcher"] = inner["coordinator"]]
           /\ log' = log \o events
           /\ UNCHANGED <<config_vars, fs, path_vars, pend, end_vars, env_vars, last_gate, dirty>>

\* name == "call_researcher" in MultiAgent.run
CoordCallResearcher(a) ==
    /\ last' = Did("CoordCallResearcher", "coordinator", a)
    /\ CoordAt("call_researcher")
    /\ IF ~enable_researcher
          THEN Handled("coordinator",
                       Returns("Error: Researcher not available in this configuration", fs, <<>>),
                       CallEvents("call_researcher"))
          ELSE ResearcherExecute("coordinator", a, CallEvents("call_researcher"))

\* CoderTool.call_researcher, the Coder's handler of call_researcher
CoderCallResearcher(a) ==
    /\ last' = Did("CoderCallResearcher", "coder", a)
    /\ ChatAt("coder", "call_researcher")
    /\ ResearcherExecute("coder", a, <<>>)

ResearcherError == "Error running researcher. The MCP service may be unavailable."

\* what execute's `except Exception` does with a fault of _run_researcher
ResearcherCaught ==
    /\ ReturnTo("researcher", ResearcherError,
                <<Event("researcher_mcp_error", "researcher", 0, 0)>>)
    /\ UNCHANGED <<config_vars, fs, path_vars, inner, final_text, parent, requests,
                   end_vars, env_vars, last_gate, dirty>>

\* async with Client(...): tools = await client.list_tools()
ResearcherConnect(result) ==
    /\ last' = Did("ResearcherConnect", "researcher", NoArgs)
    /\ Running("researcher") /\ pc["researcher"] = "connect"
    /\ CASE result = "ok" ->
              /\ pc' = [pc EXCEPT !["researcher"] = "loop"]
              /\ log' = Append(log, Event("researcher_mcp_tools_loaded", "researcher", 0, 0))
              /\ UNCHANGED <<config_vars, fs, path_vars, stack, inner, pend, msgs, final_text,
                             parent, requests, end_vars, env_vars, last_gate, dirty>>
         [] result = "list_failed" ->
              /\ ReturnTo("researcher", "Error listing MCP tools",
                          <<Event("researcher_mcp_discovery_failed", "researcher", 0, 0)>>)
              /\ UNCHANGED <<config_vars, fs, path_vars, inner, final_text, parent, requests,
                             end_vars, env_vars, last_gate, dirty>>
         [] OTHER -> ResearcherCaught

\* one iteration up to the model request
ResearcherRequest ==
    /\ last' = Did("ResearcherRequest", "researcher", NoArgs)
    /\ Running("researcher") /\ pc["researcher"] = "loop"
    /\ MoreSteps("researcher")
    /\ inner' = [inner EXCEPT !["researcher"] = @ + 1]
    /\ requests' = [requests EXCEPT !["researcher"] = @ + 1]
    /\ pc' = [pc EXCEPT !["researcher"] = "await"]
    /\ log' = Append(log, Event("llm_call", "researcher", parent["researcher"],
                                inner["researcher"] + 1))
    /\ UNCHANGED <<config_vars, fs, path_vars, stack, pend, msgs, final_text, parent,
                   end_vars, env_vars, last_gate, dirty>>

\* a model request of the Researcher fails: execute catches it
ResearcherReplyFault ==
    /\ last' = Did("ResearcherReplyFault", "researcher", NoArgs)
    /\ Running("researcher") /\ pc["researcher"] \in {"await", "await_summary"}
    /\ ResearcherCaught

\* if not message.tool_calls: final_text = message.content or ""; break
ResearcherReplyText(kind) ==
    /\ last' = Did("ResearcherReplyText", "researcher", NoArgs)
    /\ Running("researcher") /\ pc["researcher"] = "await"
    /\ LET text == IF kind = "empty" THEN "" ELSE "text" IN
         /\ final_text' = [final_text EXCEPT !["researcher"] = text]
         /\ msgs' = [msgs EXCEPT !["researcher"] = Append(@, Msg("assistant", text))]
    /\ pc' = [pc EXCEPT !["researcher"] = "finish"]
    /\ log' = Append(log, Event("llm_response", "researcher", parent["researcher"],
                                inner["researcher"]))
    /\ UNCHANGED <<config_vars, fs, path_vars, stack, inner, pend, parent, requests,
                   end_vars, env_vars, last_gate, dirty>>

\* messages.append({"role": "assistant", "tool_calls": message.tool_calls})
ResearcherReplyCalls(names) ==
    /\ last' = Did("ResearcherReplyCalls", "researcher", NoArgs)
    /\ Running("researcher") /\ pc["researcher"] = "await"
    /\ calls_emitted + Len(names) <= call_budget
    /\ LET calls == MakeCalls(names, next_id) IN
         /\ msgs' = [msgs EXCEPT !["researcher"] = Append(@, AssistantCalls(calls))]
         /\ pend' = [pend EXCEPT !["researcher"] = calls]
    /\ next_id' = next_id + Len(names)
    /\ calls_emitted' = calls_emitted + Len(names)
    /\ pc' = [pc EXCEPT !["researcher"] = "dispatch"]
    /\ log' = Append(log, Event("llm_response", "researcher", parent["researcher"],
                                inner["researcher"]))
    /\ UNCHANGED <<config_vars, fs, path_vars, stack, inner, final_text, parent,
                   requests, end_vars, last_gate, dirty>>

\* result = await client.call_tool(...): its text, or the caught exception
ResearcherCallTool(ok) ==
    /\ last' = Did("ResearcherCallTool", "researcher", NoArgs)
    /\ Running("researcher") /\ pc["researcher"] = "dispatch"
    /\ Answer("researcher",
              IF ok THEN "tool text" ELSE "Error calling MCP tool",
              <<Event(IF ok THEN "researcher_mcp_tool_called" ELSE "researcher_mcp_error",
                      "researcher", 0, 0)>>)
    /\ UNCHANGED <<config_vars, fs, path_vars, stack, inner, final_text, parent,
                   requests, end_vars, env_vars, last_gate, dirty>>

\* the loop is over, by break or because the budget is spent
ResearcherLoopOver ==
    \/ pc["researcher"] = "finish"
    \/ pc["researcher"] = "loop" /\ ~MoreSteps("researcher")

\* if not final_text: the "Summarize your findings now" request, tools=None
ResearcherSummarize ==
    /\ last' = Did("ResearcherSummarize", "researcher", NoArgs)
    /\ Running("researcher") /\ ResearcherLoopOver
    /\ final_text["researcher"] = ""
    /\ msgs' = [msgs EXCEPT !["researcher"] = Append(@, Msg("user", "Summarize your findings now"))]
    /\ requests' = [requests EXCEPT !["researcher"] = @ + 1]
    /\ pc' = [pc EXCEPT !["researcher"] = "await_summary"]
    /\ UNCHANGED <<config_vars, fs, path_vars, stack, inner, pend, final_text, parent,
                   log, end_vars, env_vars, last_gate, dirty>>

\* final_text = summary_msg.content or ""; return final_text or "No researcher ..."
ResearcherSummaryReply(kind) ==
    /\ last' = Did("ResearcherSummaryReply", "researcher", NoArgs)
    /\ Running("researcher") /\ pc["researcher"] = "await_summary"
    /\ LET text == IF kind = "empty" THEN "" ELSE "text" IN
         /\ final_text' = [final_text EXCEPT !["researcher"] = text]
         /\ ReturnTo("researcher",
                     IF text = "" THEN "No researcher answer produced." ELSE text,
                     <<Event("llm_response", "researcher", parent["researcher"], -1)>>)
    /\ UNCHANGED <<config_vars, fs, path_vars, inner, parent, requests,
                   end_vars, env_vars, last_gate, dirty>>

\* return final_text when the loop ended on a plain-text reply
ResearcherReturn ==
    /\ last' = Did("ResearcherReturn", "researcher", NoArgs)
    /\ Running("researcher") /\ ResearcherLoopOver
    /\ final_text["researcher"] # ""
    /\ ReturnTo("researcher", final_text["researcher"], <<>>)
    /\ UNCHANGED <<config_vars, fs, path_vars, inner, final_text, parent, requests,
                   end_vars, env_vars, last_gate, dirty>>

(***************************************************************************)
(* The specification.                                                      *)
(***************************************************************************)
\* tool names the model puts in its calls, by loop
CoordToolChoice == ToolNames
ChatToolChoice == {"write_file", "run_shell", "call_researcher", "foo"}
McpToolChoice == {"get-library-docs"}

Next ==
    \/ CoordStepStart
    \/ CoordReplyFault
    \/ \E kind \in TextKinds : CoordReplyText(kind)
    \/ \E names \in CallSeqs(CoordToolChoice) : CoordReplyCalls(names)
    \/ \E a \in WriteFileArgs : CoordWriteFile(a)
    \/ \E a \in RunShellArgs : CoordRunShell(a)
    \/ CoordUnknownTool
    \/ \E a \in AnyArgs : CoordIndicateCompletion(a)
    \/ \E a \in CoderArgs : CoordCallCoder(a)
    \/ \E a \in TestgenArgs : CoordCallTestgen(a)
    \/ \E a \in ResearcherArgs : CoordCallResearcher(a)
    \/ CoordExhausted
    \/ \E r \in ChatRoles : ChatRequest(r)
    \/ \E r \in ChatRoles : ChatReplyFault(r)
    \/ \E r \in ChatRoles, kind \in {"text", "empty"} : ChatReplyText(r, kind)
    \/ \E r \in ChatRoles, names \in CallSeqs(ChatToolChoice) : ChatReplyCalls(r, names)
    \/ \E r \in ChatRoles, a \in WriteFileArgs : ChatWriteFile(r, a)
    \/ \E r \in ChatRoles, a \in RunShellArgs : ChatRunShell(r, a)
    \/ \E r \in ChatRoles : ChatUnknownTool(r)
    \/ \E a \in ResearcherArgs : CoderCallResearcher(a)
    \/ \E r \in ChatRoles : ChatReturn(r)
    \/ \E result \in {"ok", "list_failed", "fault"} : ResearcherConnect(result)
    \/ ResearcherRequest
    \/ ResearcherReplyFault
    \/ \E kind \in {"text", "empty"} : ResearcherReplyText(kind)
    \/ \E names \in CallSeqs(McpToolChoice) : ResearcherReplyCalls(names)
    \/ \E ok \in BOOLEAN : ResearcherCallTool(ok)
    \/ ResearcherSummarize
    \/ \E kind \in {"text", "empty"} : ResearcherSummaryReply(kind)
    \/ ResearcherReturn

Spec == Init /\ [][Next]_vars

(***************************************************************************)
(* Runs in which the coordinator's model only writes and removes the       *)
(* deliverable and asks for completion, with well-formed arguments; both   *)
(* optional roles are disabled.                                            *)
(***************************************************************************)
GateToolChoice == {"write_file", "run_shell", "indicate_completion"}
GateWrites == [kind : {"valid"}, path : {"solver"}, content : FileContents]
GateShell == {[kind |-> "valid", path |-> "solver", content |-> "missing"]}

InitGate == InitRun({FALSE}, GateCalls)

NextGate ==
    \/ CoordStepStart
    \/ \E names \in CallSeqs(GateToolChoice) : CoordReplyCalls(names)
    \/ \E a \in GateWrites : CoordWriteFile(a)
    \/ \E a \in GateShell : CoordRunShell(a)
    \/ CoordIndicateCompletion(NoArgs)
    \/ CoordExhausted

SpecGate == InitGate /\ [][NextGate]_vars

\* the same runs with replies of up to TurnCalls tool calls in one turn
TurnSeqs == UNION {[1..k -> GateToolChoice] : k \in 1..TurnCalls}

NextTurn ==
    \/ CoordStepStart
    \/ \E names \in TurnSeqs : CoordReplyCalls(names)
    \/ \E a \in GateWrites : CoordWriteFile(a)
    \/ \E a \in GateShell : CoordRunShell(a)
    \/ CoordIndicateCompletion(NoArgs)
    \/ CoordExhausted

SpecTurn == InitGate /\ [][NextTurn]_vars

(***************************************************************************)
(* The same runs up to the teardown, with the Logger either created by the *)
(* run (scripts/run_batch.py) or passed in by the driver that serializes   *)
(* it when agent.run is over (run_evaluation.py).                          *)
(***************************************************************************)
\* finally: ... logger.serialize(), after agent.run(...) of run_evaluation.py
DriverFinally ==
    /\ last' = Did("DriverFinally", "coordinator", NoArgs)
    /\ ~own_logger
    /\ outcome # "running"
    /\ last.act # "DriverFinally"
    /\ serialized' = serialized + 1
    /\ UNCHANGED <<config_vars, fs, path_vars, stack, pc, inner, pend, msgs, final_text,
                   parent, requests, log, outcome, fault, returned, env_vars,
                   last_gate, dirty>>

InitTeardown == InitWith({FALSE}, GateCalls, BOOLEAN)

NextTeardown ==
    \/ CoordStepStart
    \/ \E names \in CallSeqs(GateToolChoice) : CoordReplyCalls(names)
    \/ \E a \in GateWrites : CoordWriteFile(a)
    \/ \E a \in GateShell : CoordRunShell(a)
    \/ CoordIndicateCompletion(NoArgs)
    \/ CoordExhausted
    \/ DriverFinally

\* the finally block of the driver always runs
FairSpecTeardown == InitTeardown /\ [][NextTeardown]_vars /\ WF_vars(DriverFinally)

(***************************************************************************)
(* Runs in which every model request and every handler returns: the        *)
(* coordinator delegates to the Coder and the TestGenerator or asks for    *)
(* completion, the nested loops write the deliverable or call a tool they  *)
(* do not have.  The code is sequential, so a step that can be taken is    *)
(* taken.                                                                  *)
(***************************************************************************)
LoopCoordChoice == {"call_coder", "call_testgen", "indicate_completion"}
LoopChatChoice == {"write_file", "foo"}
LoopWrites == {[kind |-> "valid", path |-> "solver", content |-> "ready"]}
LoopTargets == {[kind |-> "valid", path |-> "solver", content |-> "none"]}

InitLoop == InitRun({TRUE}, LoopCalls)

NextLoop ==
    \/ CoordStepStart
    \/ CoordReplyText("text")
    \/ \E names \in CallSeqs(LoopCoordChoice) : CoordReplyCalls(names)
    \/ CoordCallCoder(NoArgs)
    \/ \E a \in LoopTargets : CoordCallTestgen(a)
    \/ CoordIndicateCompletion(NoArgs)
    \/ CoordExhausted
    \/ \E r \in ChatRoles : ChatRequest(r)
    \/ \E r \in ChatRoles : ChatReplyText(r, "text")
    \/ \E r \in ChatRoles, names \in CallSeqs(LoopChatChoice) : ChatReplyCalls(r, names)
    \/ \E r \in ChatRoles, a \in LoopWrites : ChatWriteFile(r, a)
    \/ \E r \in ChatRoles : ChatUnknownTool(r)
    \/ \E r \in ChatRoles : ChatReturn(r)

FairSpecLoop == InitLoop /\ [][NextLoop]_vars /\ WF_vars(NextLoop)

(***************************************************************************)
(* Properties.                                                             *)
(***************************************************************************)
Coord == msgs["coordinator"]
LastMsg(ms) == ms[Len(ms)]

\* the run has ended: by a ready completion, by budget exhaustion, by an
\* exception
Ended == outcome # "running"

\* the coordinator handled an indicate_completion call in the step just
\* taken, and the file at the deliverable path was `state`
GateHandled(state) ==
    /\ last.act = "CoordIndicateCompletion"
    /\ last.fs[last.path] = state

\* the coordinator answered the call it handled with `content` and goes on
\* with the next call of the turn or with its next step
CoordContinuesWith(content) ==
    /\ outcome = "running"
    /\ Top = "coordinator"
    /\ pc["coordinator"] \in {"dispatch", "loop"}
    /\ Len(Coord) = last.len + 1
    /\ LastMsg(Coord) = ToolMsg(last.call.id, content)

\* C1: the run ends successfully (done event, the deliverable path returned)
\* only in handling an indicate_completion call for which the file at the
\* current deliverable path loads and exposes a callable solve
C1_SuccessOnlyThroughReadyGate ==
    (outcome = "done" \/ \E i \in 1..Len(log) : log[i].event = "done") =>
        /\ outcome = "done"
        /\ last.act = "CoordIndicateCompletion"
        /\ last.call.name = "indicate_completion"
        /\ fs[solver_path] = "ready"
        /\ returned = solver_path
        /\ log[Len(log)].event = "done"
        /\ \A i \in 1..(Len(log) - 1) : log[i].event # "done"

\* C1 witness: a run that ended successfully after an earlier step
C1_Witness == outcome = "done" /\ inner["coordinator"] = 2

\* C2: indicate_completion with no file at the deliverable path is answered
\* with the "not found" diagnostic and the coordinator goes on
C2_MissingDeliverableNeverCompletes ==
    GateHandled("missing") =>
        CoordContinuesWith("Cannot complete: Solver not found. Use call_coder to create it first.")

\* C2 witness: such a call after an earlier tool call of the run
C2_Witness == GateHandled("missing") /\ calls_emitted = 2 /\ last.call.id = 2

\* a loop that issues model requests under a step budget
BoundedLoops == {"coordinator", "coder", "test_generator"}

\* C3: a loop with step budget N makes at most N model requests; a nested
\* ToolChatAgent.run always returns to the loop that called it; and the
\* coordinator run always ends, by a ready completion or by exhausting its
\* budget (every model request and every handler returns in these runs)
C3_BoundedAndTerminates ==
    /\ [](\A r \in BoundedLoops : requests[r] <= Budget(r) /\ inner[r] <= Budget(r))
    /\ \A r \in ChatRoles : [](pc[r] # "idle" => <>(pc[r] = "idle"))
    /\ <>(outcome \in {"done", "max_steps"})

\* C3 witness: the coordinator has spent a budget of more than one step,
\* and a nested loop has spent its own without ever replying in plain text
C3_Witness ==
    /\ outcome = "max_steps" /\ max_steps > 1 /\ requests["coordinator"] = max_steps
    /\ \E r \in ChatRoles :
         /\ requests[r] = Budget(r) /\ Budget(r) > 1
         /\ LastMsg(msgs[r]).role = "tool"

\* every assistant message with k tool calls is followed by exactly k tool
\* messages that carry the ids of its calls, and no other tool message exists
Paired(ms) ==
    /\ \A i \in 1..Len(ms) :
         ms[i].role = "assistant" /\ ms[i].tool_calls # <<>> =>
            /\ i + Len(ms[i].tool_calls) <= Len(ms)
            /\ \A j \in 1..Len(ms[i].tool_calls) :
                 /\ ms[i + j].role = "tool"
                 /\ ms[i + j].tool_call_id = ms[i].tool_calls[j].id
            /\ (i + Len(ms[i].tool_calls) < Len(ms) =>
                  ms[i + Len(ms[i].tool_calls) + 1].role # "tool")
    /\ \A j \in 1..Len(ms) :
         ms[j].role = "tool" =>
            \E i \in 1..(j - 1) :
               /\ ms[i].role = "assistant"
               /\ j - i <= Len(ms[i].tool_calls)
               /\ ms[i].tool_calls[j - i].id = ms[j].tool_call_id

\* a model request of loop r is outstanding
Requesting(r) == outcome = "running" /\ pc[r] \in {"await", "await_summary"}

\* C4: whenever a loop has a model request outstanding, every assistant turn
\* of its transcript with k tool calls has got exactly k tool messages, each
\* with the id of the call it answers
C4_ToolResultsBeforeNextRequest ==
    \A r \in Roles : Requesting(r) => Paired(msgs[r])

\* C4 witness: a request that follows a turn of two tool calls
C4_Witness ==
    \E r \in Roles :
        /\ Requesting(r)
        /\ \E i \in 1..Len(msgs[r]) : Len(msgs[r][i].tool_calls) = 2

\* C5 (as claimed): whatever argument text a tool call carries, no
\* exception leaves its dispatch
C5_MalformedArgumentsNeverRaise == ~(outcome = "raised" /\ fault = "args")

\* C6 (as claimed): no fault inside a handler (a file system failure, an
\* exception inside the loop it delegates to) comes out of the handler as
\* an exception
C6_HandlerFaultsNeverRaise ==
    ~(/\ outcome = "raised"
      /\ \/ fault = "handler"
         \/ fault = "transport" /\ last.role \in ChatRoles)

\* number of "Tool calls remaining" messages of a transcript
GuidanceCount(ms) == Cardinality({i \in 1..Len(ms) : IsGuidance(ms[i])})

\* C7: the coordinator transcript never holds more than one "Tool calls
\* remaining" message, and exactly one while a model request is outstanding
C7_AtMostOneGuidance ==
    /\ GuidanceCount(Coord) <= 1
    /\ Requesting("coordinator") => GuidanceCount(Coord) = 1

\* C7 witness: the request of the second step, after a protocol violation
C7_Witness ==
    /\ Requesting("coordinator") /\ inner["coordinator"] = 2
    /\ \E i \in 1..Len(Coord) : Coord[i].role = "user"

\* the text that lists the tools of T
Enumerating(T) ==
    (IF "call_researcher" \in T THEN "- call_researcher " ELSE "")
    \o (IF "call_coder" \in T THEN "- call_coder " ELSE "")
    \o (IF "call_testgen" \in T THEN "- call_testgen " ELSE "")
    \o (IF "run_shell" \in T THEN "- run_shell " ELSE "")
    \o (IF "indicate_completion" \in T THEN "- indicate_completion" ELSE "")

\* the corrective instructions: they list the tools offered to the model
Correctives ==
    {pre \o "ERROR: You must emit real tool calls using the available tools. Available tools: "
         \o Enumerating({OfferedTools[i] : i \in 1..Len(OfferedTools)}) :
       pre \in {"", "ERROR: Plain JSON is not a valid tool call. "}}

\* C8: after a reply without tool calls the run goes on at the head of the
\* loop; the transcript has gained the assistant message and, directly after
\* it, one corrective user message; the gate has not been run
C8_PlainTextIsCorrected ==
    last.act = "CoordReplyText" =>
        /\ outcome = "running" /\ Top = "coordinator"
        /\ pc["coordinator"] = "loop"
        /\ Len(Coord) = last.len + 2
        /\ Coord[last.len + 1].role = "assistant"
        /\ Coord[last.len + 1].tool_calls = <<>>
        /\ Coord[last.len + 1].content \in {"text", "No content produced.", "{ \"tool\": ... }"}
        /\ Coord[last.len + 2].role = "user"
        /\ Coord[last.len + 2].content \in Correctives
        /\ last_gate.n = last.gates
        /\ log[Len(log)].event = "warning_no_tool_call"

\* C8 witness: a text reply at the second step, after a tool-call step
C8_Witness ==
    /\ last.act = "CoordReplyText" /\ inner["coordinator"] = 2
    /\ \E i \in 1..Len(Coord) : Coord[i].role = "tool"

\* C9: indicate_completion on a deliverable that loads but has no callable
\* solve is answered with the diagnostic that asks for a module-level
\* callable solve, and the coordinator goes on
C9_NoEntrypointIsDiagnosed ==
    GateHandled("no_solve") =>
        CoordContinuesWith("Cannot complete: Solver must export a module-level callable solve(problem). Add: solve = Solver().solve")

\* C9 witness: the deliverable was written without solve, then the gate ran
C9_Witness == GateHandled("no_solve") /\ last.gates = 0

NoEntrypoint ==
    "Solver must export a module-level callable solve(problem). Add: solve = Solver().solve"

\* C11: a gate check on a ready deliverable ends the run with success
\* whatever the check before it said; in particular the check that follows
\* a "no callable solve" verdict, once the file has been rewritten to
\* expose solve, returns ready and the run returns the deliverable
C11_GateKeepsNoMemory ==
    (last.act = "CoordIndicateCompletion" /\ last.fs[last.path] = "ready") =>
        /\ last_gate.verdict = "ready"
        /\ last_gate.n = last.gates + 1
        /\ outcome = "done"
        /\ returned = last.path
        /\ LastMsg(Coord) = ToolMsg(last.call.id, "Solver ready. Completing run.")

\* C11 witness: rejected for the missing entry point, rewritten, accepted
C11_Witness ==
    /\ outcome = "done"
    /\ last_gate.n >= 2
    /\ last_gate.prev_verdict = NoEntrypoint
    /\ last_gate.prev_path = last_gate.path
    /\ last_gate.changed

\* C12 (as claimed): no step taken inside a TestGenerator invocation, its
\* write_file and run_shell calls included, changes the file at the
\* deliverable path
C12_TestGeneratorLeavesDeliverable ==
    last.role = "test_generator" => fs[solver_path] = last.fs[solver_path]

\* C13 (as claimed): no tool call the coordinator dispatches itself and no
\* step of a Researcher invocation changes the file at the deliverable path
C13_OnlyCoderWritesDeliverable ==
    last.role \in {"coordinator", "researcher"} => fs[solver_path] = last.fs[solver_path]

\* C14 (as claimed): every call_researcher invocation hands a non-empty
\* text back to the loop that made the call: the call never leaves the run
\* by an exception, and the tool result appended on return is not empty
C14_ResearcherAlwaysAnswers ==
    /\ last.act \in {"CoordCallResearcher", "CoderCallResearcher"} => outcome = "running"
    /\ (last.role = "researcher" /\ pc["researcher"] = "idle") =>
          /\ outcome = "running"
          /\ LastMsg(msgs[Top]).role = "tool"
          /\ LastMsg(msgs[Top]).content # ""

\* transcript a is the beginning of transcript b
IsPrefix(a, b) == Len(a) <= Len(b) /\ SubSeq(b, 1, Len(a)) = a

\* index of the last log entry before or at i that satisfies the test (0: none)
LastIndex(i, Test(_)) ==
    LET S == {j \in 1..i : Test(log[j])} IN
      IF S = {} THEN 0 ELSE CHOOSE j \in S : \A k \in S : k <= j

\* the coordinator step during which log entry i was written (0: before
\* the first step)
StepAt(i) ==
    LET k == LastIndex(i, LAMBDA e : e.event = "step_start") IN
      IF k = 0 THEN 0 ELSE log[k].step

\* the model requests nested loop r has logged since its last invocation began
CallsSincePrompt(r) ==
    LET k == LastIndex(Len(log), LAMBDA e : e.event = "subagent_prompt" /\ e.subagent = r) IN
      IF k = 0 THEN <<>>
      ELSE SelectSeq(SubSeq(log, k + 1, Len(log)),
                     LAMBDA e : e.event = "llm_call" /\ e.subagent = r)

\* C15: the TestGenerator's transcript is only ever extended, so a later
\* invocation's transcript begins with all messages of the earlier ones; an
\* invocation starts by appending its prompt to the retained transcript,
\* with the inner step counter back at 0 and the current coordinator step
\* as parent; the requests of an invocation are logged as parent.1,
\* parent.2, ...
C15_TestGeneratorHistory ==
    /\ [][IsPrefix(msgs["test_generator"], msgs'["test_generator"])]_vars
    /\ [][(pc["test_generator"] = "idle" /\ pc'["test_generator"] # "idle") =>
             /\ msgs'["test_generator"] =
                   Append(msgs["test_generator"], Msg("developer", "prompt"))
             /\ inner'["test_generator"] = 0
             /\ parent'["test_generator"] = inner["coordinator"]]_vars
    /\ [](pc["test_generator"] # "idle" =>
             /\ parent["test_generator"] = StepAt(Len(log))
             /\ Len(CallsSincePrompt("test_generator")) = inner["test_generator"]
             /\ \A j \in 1..Len(CallsSincePrompt("test_generator")) :
                   /\ CallsSincePrompt("test_generator")[j].sub = j
                   /\ CallsSincePrompt("test_generator")[j].step = parent["test_generator"])

\* C15 witness: the first request of a second invocation, made at a later
\* coordinator step than the first; the transcript holds both prompts
C15_Witness ==
    /\ pc["test_generator"] = "await" /\ inner["test_generator"] = 1
    /\ parent["test_generator"] = 2
    /\ \E i \in 1..Len(log) :
         log[i] = Event("llm_call", "test_generator", 1, 1)
    /\ Len(SelectSeq(msgs["test_generator"], LAMBDA m : m.role = "developer")) = 2
    /\ msgs["test_generator"][2].role = "assistant"

\* the roles that run nested under the coordinator
NestedRoles == {"coder", "test_generator", "researcher"}

\* a log entry written by the code of a nested loop with a step id
NestedEntry(e) ==
    /\ e.subagent \in NestedRoles
    /\ e.event \in {"subagent_prompt", "llm_call", "llm_response"}

\* the step id of a log entry
StepId(e) == <<e.step, e.sub>>

Invocation(r) ==
    LET S == {i \in 1..Len(msgs[r]) : msgs[r][i].role = "developer"}
        k == IF S = {} THEN 0 ELSE CHOOSE i \in S : \A j \in S : j <= i
    IN SubSeq(msgs[r], k + 1, Len(msgs[r]))

\* every reply of that invocation asked only for tools r has no handler for
OnlyUnknownTools(r) ==
    \A i \in 1..Len(Invocation(r)) :
        Invocation(r)[i].role = "assistant" =>
           /\ Invocation(r)[i].tool_calls # <<>>
           /\ \A j \in 1..Len(Invocation(r)[i].tool_calls) :
                 Invocation(r)[i].tool_calls[j].name \notin Handlers(r)

\* the budget of r is spent
Spent(r) == pc[r] = "loop" /\ inner[r] = Budget(r)

\* C17: a ToolChatAgent loop whose every reply asks only for tools without
\* a handler ends after exactly as many model requests as its budget, with
\* one "Unknown tool: <name>" result per requested call, directly after the
\* turn that asked for it, and with no plain-text output
C17_UnknownToolsSpendBudget ==
    \A r \in ChatRoles :
        (Spent(r) /\ OnlyUnknownTools(r)) =>
           /\ requests[r] = Budget(r)
           /\ final_text[r] = ""
           /\ Len(SelectSeq(Invocation(r), LAMBDA m : m.role = "assistant")) = Budget(r)
           /\ \A i \in 1..Len(Invocation(r)) :
                 Invocation(r)[i].role = "assistant" =>
                    \A j \in 1..Len(Invocation(r)[i].tool_calls) :
                       /\ i + j <= Len(Invocation(r))
                       /\ Invocation(r)[i + j] =
                             ToolMsg(Invocation(r)[i].tool_calls[j].id,
                                     "Unknown tool: " \o Invocation(r)[i].tool_calls[j].name)
           /\ \A i \in 1..Len(Invocation(r)) :
                 Invocation(r)[i].role \in {"assistant", "tool"}
           /\ Len(SelectSeq(Invocation(r), LAMBDA m : m.role = "tool")) =
                 Len(Invocation(r)) - Budget(r)

\* C17 witness: a budget of two spent on unknown tools, three calls in all
C17_Witness ==
    \E r \in ChatRoles :
        /\ Spent(r) /\ OnlyUnknownTools(r) /\ Budget(r) = 2
        /\ Len(SelectSeq(Invocation(r), LAMBDA m : m.role = "tool")) = 3

\* the steps that dispatch a delegation call
Delegations ==
    {"CoordCallCoder", "CoordCallTestgen", "CoordCallResearcher", "CoderCallResearcher"}

\* argument text that does not parse, or parses to an object without the
\* required field (absent arguments are read as "{}")
Rejected(a) == a.kind \in {"bad_json", "null", "missing"}

\* the diagnostics a rejected delegation call is answered with
RejectionTexts ==
    {"Error: Invalid JSON in call_coder arguments",
     "Error: 'approach' parameter is required for call_coder",
     "Error: Invalid JSON in call_testgen arguments",
     "Error: solver_path is required for call_testgen",
     "Error: Invalid JSON in call_researcher arguments",
     "Error: 'query' parameter is required for call_researcher",
     "Error: Researcher not available in this configuration",
     "Error: Test generator not available in this configuration"}

\* C18: the step that dispatches a delegation call whose argument text does
\* not parse or lacks its required field leaves the run running in the same
\* loop, which gains exactly the tool result, a diagnostic ("Invalid JSON"
\* for unparseable call_coder text), and goes on to the next call or the
\* next step; no model request is made, no nested loop starts, the files,
\* both deliverable paths and every other transcript (the TestGenerator's
\* retained history included) stay as they are
C18_RejectedDelegationHasNoEffect ==
    [][(last'.act \in Delegations /\ Rejected(last'.arg)) =>
          /\ outcome' = "running"
          /\ stack' = stack
          /\ requests' = requests /\ inner' = inner
          /\ fs' = fs /\ solver_path' = solver_path /\ tg_solver_path' = tg_solver_path
          /\ \A r \in Roles \ {Top} : msgs'[r] = msgs[r] /\ pc'[r] = pc[r]
          /\ Len(msgs'[Top]) = Len(msgs[Top]) + 1
          /\ IsPrefix(msgs[Top], msgs'[Top])
          /\ LastMsg(msgs'[Top]).role = "tool"
          /\ LastMsg(msgs'[Top]).tool_call_id = CurCall(Top).id
          /\ LastMsg(msgs'[Top]).content \in RejectionTexts
          /\ (last'.act = "CoordCallCoder" /\ last'.arg.kind = "bad_json") =>
                LastMsg(msgs'[Top]).content = "Error: Invalid JSON in call_coder arguments"
          /\ pc'[Top] = NextPc(Top)
          /\ pend'[Top] = Tail(pend[Top])]_vars

\* C18 witness: a call_testgen with unparseable arguments has been
\* rejected after an earlier TestGenerator invocation left its history
C18_Witness ==
    /\ last.act = "CoordCallTestgen" /\ last.arg.kind = "bad_json"
    /\ enable_tester
    /\ msgs["test_generator"] # <<>>
    /\ LastMsg(Coord).content = "Error: Invalid JSON in call_testgen arguments"

\* the texts a reply without tool calls may carry: message.content or ""
ReplyTexts == {"", "text"}

\* C19 (as claimed): when a ToolChatAgent loop returns because its budget is
\* spent, what its caller receives differs from everything it could have
\* received after a plain-text reply, so the caller can tell the two apart
C19_ExhaustionIsSignalled ==
    \A r \in ChatRoles :
        (last.act = "ChatReturn" /\ last.role = r /\ LastMsg(msgs[r]).role = "tool") =>
           LastMsg(msgs[Top]).content \notin {ResultText(r, t) : t \in ReplyTexts}

\* the steps in which a model request fails in transport
TransportFaults == {"CoordReplyFault", "ChatReplyFault", "ResearcherReplyFault"}

\* C20 (as claimed): a transport fault on a model request ends the run,
\* whichever loop made the request: the exception leaves MultiAgent.run and
\* no loop goes on
C20_TransportFaultIsFatal ==
    last.act \in TransportFaults =>
        /\ outcome = "raised" /\ fault = "transport"
        /\ stack = <<>>

\* C21: at every model request and when the run has ended (ready completion
\* or exhausted budget), every transcript pairs each assistant turn of k tool
\* calls with exactly k tool messages carrying the ids of those calls
C21_TranscriptsPaired ==
    \A r \in Roles :
        (Requesting(r) \/ outcome \in {"done", "max_steps"}) => Paired(msgs[r])

\* the names in a sequence of tool definitions
Names(tools) == {tools[i] : i \in 1..Len(tools)}

\* role r has not run: no loop of it is active, it has made no model or
\* lookup request and it has no transcript
NeverRan(r) ==
    /\ pc[r] = "idle"
    /\ requests[r] = 0
    /\ msgs[r] = <<>>
    /\ \A i \in 1..Len(stack) : stack[i] # r
    /\ \A i \in 1..Len(log) : log[i].subagent # r

\* C22: with the Researcher (TestGenerator) disabled, call_researcher
\* (call_testgen) is advertised neither to the coordinator nor to the Coder,
\* a call to it is answered with an error text, and the role never starts a
\* loop and never issues a model or lookup request
C22_DisabledRolesStayOut ==
    /\ ~enable_researcher =>
          /\ "call_researcher" \notin Names(OfferedTools) \cup ChatTools("coder")
          /\ NeverRan("researcher")
          /\ (last.act = "CoordCallResearcher" =>
                CoordContinuesWith("Error: Researcher not available in this configuration"))
          /\ (/\ last.role = "coder" /\ last.call.name = "call_researcher"
              /\ last.act # "ChatReplyCalls"
              => /\ last.act = "ChatUnknownTool"
                 /\ Top = "coder"
                 /\ Len(msgs["coder"]) = last.len + 1
                 /\ LastMsg(msgs["coder"]) =
                       ToolMsg(last.call.id, "Unknown tool: call_researcher"))
    /\ ~enable_tester =>
          /\ "call_testgen" \notin Names(OfferedTools) \cup ChatTools("coder")
          /\ NeverRan("test_generator")
          /\ (last.act = "CoordCallTestgen" =>
                CoordContinuesWith("Error: Test generator not available in this configuration"))

\* C22 witness: with both roles disabled the coordinator called
\* call_researcher anyway and got the error text
C22_Witness ==
    /\ ~enable_researcher /\ ~enable_tester
    /\ last.act = "CoordCallResearcher"
    /\ CoordContinuesWith("Error: Researcher not available in this configuration")

\* a reply without tool calls
TextReply(m) == m.role = "assistant" /\ m.tool_calls = <<>>

\* the invocation of nested loop r keeps to the step algorithm of
\* ToolChatAgent.run: a reply without tool calls is the last message of the
\* invocation's transcript, and there was one model request per step
KeepsToolChatSteps(r) ==
    \A i \in 1..Len(Invocation(r)) :
        TextReply(Invocation(r)[i]) =>
           /\ i = Len(Invocation(r))
           /\ requests[r] = inner[r]

\* C23: the Researcher's loop appends the messages ToolChatAgent.run appends
\* and, like it, is over at the first reply without tool calls (leaving
\* aside invocations that spend their budget without such a reply)
C23_ResearcherLoopAsToolChat ==
    \A r \in NestedRoles : KeepsToolChatSteps(r)

\* the entries a step adds to the log
Logged == SubSeq(log', Len(log) + 1, Len(log'))

\* the entries of the log at positions i < j were written in that order:
\* a model reply of a nested loop comes after the request it answers, and
\* the coordinator steps the entries belong to never go back
InOrder ==
    /\ \A i, j \in 1..Len(log) :
         (i < j /\ log[i].step > 0 /\ log[j].step > 0) => log[i].step <= log[j].step
    /\ \A j \in 1..Len(log) :
         (log[j].event = "llm_response" /\ log[j].sub > 0) =>
            \E i \in 1..(j - 1) :
               /\ log[i].event = "llm_call"
               /\ log[i].subagent = log[j].subagent
               /\ StepId(log[i]) = StepId(log[j])
               /\ \A k \in (i + 1)..(j - 1) :
                     log[k].subagent = log[j].subagent => log[k].event # "llm_call"

\* C24: the event log only grows. Every step leaves the entries already
\* written in place and unchanged and puts its own entries at the end, the
\* entries of a step belong to the coordinator step in progress, and the
\* entries of the coordinator and of the nested loops lie in the one log in
\* the order in which they were written
C24_LogOnlyGrows ==
    /\ [][/\ IsPrefix(log, log')
          /\ \A i \in 1..Len(Logged) : Logged[i].step \in {0, inner'["coordinator"]}]_vars
    /\ []InOrder

\* C24 witness: the log holds entries of the coordinator, then of the Coder,
\* then of the Researcher the Coder called, then of the Coder again
C24_Witness ==
    \E i, j, k, l \in 1..Len(log) :
        /\ i < j /\ j < k /\ k < l
        /\ log[i].subagent = "coordinator"
        /\ log[j].subagent = "coder"
        /\ log[k].subagent = "researcher"
        /\ log[l].subagent = "coder"

\* the run ended by ready completion or by spending its budget
EndedNormally == outcome \in {"done", "max_steps"}

\* the run and, for a Logger passed in, its driver are over
TornDown == EndedNormally /\ (own_logger \/ last.act = "DriverFinally")

AnnotatedSummaries(exists) ==
    IF exists
       THEN {"Coder finished. exists=True. Notes: " \o t : t \in {"", "text"}}
       ELSE {"Coder finished. exists=False. Notes: " \o t
                \o " WARNING: The solver file was not created." : t \in {"", "text"}}

\* the nested loop of role r has just returned to the coordinator
ReturnedToCoordinator(r) ==
    /\ last.role = r
    /\ last.act \in {"ChatReturn", "ResearcherReturn", "ResearcherSummaryReply"}
    /\ outcome = "running"
    /\ Top = "coordinator"

\* the result of the delegation to r is one tool message whose text says
\* whether the file at the deliverable path exists at that moment
AnnotatedResult(r) ==
    ReturnedToCoordinator(r) =>
       /\ LastMsg(Coord).role = "tool"
       /\ LastMsg(Coord).content \in AnnotatedSummaries(fs[solver_path] # "missing")

\* C26: every delegation that ran its nested loop (Coder, Researcher,
\* TestGenerator) returns to the coordinator one text summary annotated with
\* whether the deliverable now exists, in agreement with the file system
C26_SummariesAnnotated ==
    \A r \in NestedRoles : AnnotatedResult(r)

\* the coordinator has just started the nested loop of r on a well-formed
\* call whose path argument is `path`
Delegated(act, r, path) ==
    /\ last.act = act
    /\ last.arg.kind = "valid"
    /\ last.arg.path = path
    /\ outcome = "running"
    /\ Top = r

\* C27: a relative path argument of a delegation (output_path of
\* call_coder, solver_path of call_testgen) names the file it names when
\* taken from the run's working directory
C27_PathsResolveAgainstWorkdir ==
    \A p \in DeliverablePaths :
        /\ Delegated("CoordCallCoder", "coder", p) => solver_path = p
        /\ Delegated("CoordCallTestgen", "test_generator", p) => tg_solver_path = p

\* C28: a call_coder call without output_path targets the configured solver
\* path, whatever output_path earlier call_coder calls have given
C28_DefaultIsConfiguredPath ==
    Delegated("CoordCallCoder", "coder", "none") => solver_path = "solver"

\* loop r waits for the answer to a request it made to the model endpoint
\* or to the documentation-lookup provider
Outstanding(r) ==
    /\ outcome = "running"
    /\ \/ pc[r] \in {"await", "await_summary"}
       \/ r = "researcher" /\ pc[r] \in {"connect", "dispatch"}

\* the loops below the innermost one are held in the handler of the call
\* that started the loop above them; no other loop is held
CallersHeld ==
    outcome = "running" =>
       /\ \A i \in 1..Len(stack) : (pc[stack[i]] = "blocked") <=> (i < Len(stack))
       /\ \A i, j \in 1..Len(stack) : stack[i] = stack[j] => i = j
       /\ \A r \in Roles :
            (\A i \in 1..Len(stack) : stack[i] # r) => pc[r] = "idle"

\* what a step does to a loop c that is held: nothing, unless the step is
\* the return of the loop right above c, which answers the one call c was
\* handling with one tool message, or the run is left by an exception
HeldStep(c) ==
    \/ /\ pc'[c] = "blocked"
       /\ requests'[c] = requests[c] /\ inner'[c] = inner[c]
       /\ pend'[c] = pend[c] /\ msgs'[c] = msgs[c]
    \/ /\ Len(stack) >= 2 /\ Caller = c
       /\ stack' = SubSeq(stack, 1, Len(stack) - 1)
       /\ pc[Top] # "blocked" /\ pc'[Top] = "idle"
       /\ requests'[c] = requests[c] /\ inner'[c] = inner[c]
       /\ pend'[c] = Tail(pend[c])
       /\ Len(msgs'[c]) = Len(msgs[c]) + 1
       /\ msgs'[c][Len(msgs'[c])].role = "tool"
       /\ msgs'[c][Len(msgs'[c])].tool_call_id = Head(pend[c]).id
    \/ outcome' = "raised"

\* C29: at any moment at most one request to the model endpoint or to the
\* lookup provider is outstanding, and while a nested loop runs its caller
\* is held: it makes no model request and dispatches no further tool call
\* until the nested loop has returned its final text
C29_OneRequestAtATime ==
    /\ [](Cardinality({r \in Roles : Outstanding(r)}) <= 1)
    /\ [](\A r \in Roles : Outstanding(r) => Running(r))
    /\ []CallersHeld
    /\ [][\A c \in Roles : pc[c] = "blocked" => HeldStep(c)]_vars

\* C29 witness: the Researcher, called by the Coder that the coordinator
\* called, waits for a model reply while both callers are held
C29_Witness ==
    /\ stack = <<"coordinator", "coder", "researcher">>
    /\ pc["researcher"] = "await"
    /\ pc["coder"] = "blocked" /\ pc["coordinator"] = "blocked"

\* this step starts an invocation of nested loop r
Starts(r) == pc[r] = "idle" /\ pc'[r] # "idle"

\* this step is the return of the innermost loop to its caller
Returning ==
    /\ Len(stack) >= 2
    /\ stack' = SubSeq(stack, 1, Len(stack) - 1)

\* C30: transcripts are isolated. An invocation of the Coder or of the
\* Researcher starts from a transcript that holds its own prompt and
\* nothing else, the TestGenerator's starts from its earlier transcript
\* followed by the new prompt; a returning delegation adds exactly one
\* message, the tool result answering the call, to its caller's transcript;
\* and a step changes no transcript but that of the loop taking it, of the
\* loop it starts and of the caller it returns to
C30_TranscriptsIsolated ==
    /\ [][\A r \in {"coder", "researcher"} :
            Starts(r) => msgs'[r] = <<Msg("developer", "prompt")>>]_vars
    /\ [][Starts("test_generator") =>
            msgs'["test_generator"] =
               Append(msgs["test_generator"], Msg("developer", "prompt"))]_vars
    /\ [][Returning =>
            /\ Len(msgs'[Caller]) = Len(msgs[Caller]) + 1
            /\ IsPrefix(msgs[Caller], msgs'[Caller])
            /\ msgs'[Caller][Len(msgs'[Caller])].role = "tool"
            /\ msgs'[Caller][Len(msgs'[Caller])].tool_call_id = Head(pend[Caller]).id
            /\ (Top \in ChatRoles =>
                  msgs'[Caller][Len(msgs'[Caller])].content =
                     ResultText(Top, final_text[Top]))]_vars
    /\ [][\A q \in Roles :
            msgs'[q] # msgs[q] =>
               \/ stack # <<>> /\ q = Top /\ ~Returning
               \/ Starts(q)
               \/ Returning /\ q = Caller]_vars

\* C30 witness: a second invocation of the Coder has started, after a first
\* one that got a model reply, and its transcript holds the new prompt only
C30_Witness ==
    /\ pc["coder"] = "loop" /\ inner["coder"] = 0
    /\ msgs["coder"] = <<Msg("developer", "prompt")>>
    /\ Len(SelectSeq(log, LAMBDA e : e.event = "subagent_prompt" /\ e.subagent = "coder")) = 2
    /\ \E i \in 1..Len(log) : log[i].event = "llm_response" /\ log[i].subagent = "coder"

\* the "Summarize your findings now" messages in the Researcher's transcript
SummaryPrompts ==
    SelectSeq(msgs["researcher"],
              LAMBDA m : m.role = "user" /\ m.content = "Summarize your findings now")

\* C31: the Researcher makes the tool-disabled "summarize now" request
\* exactly when its loop has spent its budget without a reply free of tool
\* calls, and at most once per invocation, so that an invocation makes at
\* most max_steps + 1 model requests
C31_SummaryOnlyOnExhaustion ==
    /\ SummaryPrompts # <<>> =>
          /\ inner["researcher"] = Budget("researcher")
          /\ \A i \in 1..Len(msgs["researcher"]) : ~TextReply(msgs["researcher"][i])
    /\ (last.act = "ResearcherReturn" /\ last.role = "researcher") =>
          \E i \in 1..Len(msgs["researcher"]) : TextReply(msgs["researcher"][i])
    /\ Len(SummaryPrompts) <= 1
    /\ requests["researcher"] <= Budget("researcher") + 1

\* C32: with the s-th model request of a coordinator run with budget N
\* (1 <= s <= N) the last message of the transcript sent is the guidance
\* message, and it states N - s + 1 calls remaining: N at the first
\* request, one less with each step of either kind, never less than 1
C32_GuidanceCountsDown ==
    Requesting("coordinator") =>
       /\ requests["coordinator"] = inner["coordinator"]
       /\ inner["coordinator"] \in 1..max_steps
       /\ LastMsg(Coord) = GuidanceMsg(max_steps - inner["coordinator"] + 1)
       /\ LastMsg(Coord).n >= 1
       /\ (inner["coordinator"] = 1 => LastMsg(Coord).n = max_steps)

\* C32 witness: the second request of a run with budget 2, after a step
\* that handled a tool call; the guidance states 1 call remaining
C32_Witness ==
    /\ Requesting("coordinator") /\ max_steps = 2 /\ requests["coordinator"] = 2
    /\ LastMsg(Coord).n = 1
    /\ \E i \in 1..Len(Coord) : Coord[i].role = "tool"

\* C33: a coordinator run that spends its step budget logs max_steps as its
\* last event and no done event, does not run the completion gate in doing
\* so, raises nothing, and returns the current deliverable path if a file
\* exists there (ready or not) and no path otherwise
C33_ExhaustionReturnsBestAvailable ==
    outcome = "max_steps" =>
       /\ last.act = "CoordExhausted"
       /\ inner["coordinator"] = max_steps
       /\ log[Len(log)] = Event("max_steps", "coordinator", 0, 0)
       /\ \A i \in 1..Len(log) : log[i].event # "done"
       /\ last_gate.n = last.gates
       /\ fault = "none"
       /\ returned = (IF fs[solver_path] = "missing" THEN "None" ELSE solver_path)

\* C33 witness: the budget is spent with a file at the deliverable path that
\* the gate would not accept; its path is returned all the same
C33_Witness ==
    /\ outcome = "max_steps"
    /\ fs[solver_path] = "no_solve"
    /\ returned = solver_path

\* the path a well-formed call_coder with path argument p targets when the
\* deliverable path was `cur` before
TargetFrom(cur, p) ==
    CASE p = "none" -> cur
      [] cur = "solver" -> p
      [] OTHER -> "deep"

\* the last step was a call_coder that passed argument validation and
\* reached its target
PassedCoderCall ==
    /\ last.act = "CoordCallCoder"
    /\ last.arg.kind = "valid"
    /\ last.arg.path \in {"none"} \cup DeliverablePaths

\* C34: the deliverable path is the configured one until a call_coder that
\* passed argument validation retargets it, no other step (a call_testgen
\* with whatever solver_path in particular) changes it, and
\* indicate_completion always runs the gate on that path
C34_GateFollowsCoderOnly ==
    /\ last.act = "Init" => solver_path = "solver"
    /\ PassedCoderCall => solver_path = TargetFrom(last.path, last.arg.path)
    /\ (last.act # "Init" /\ ~PassedCoderCall) => solver_path = last.path
    /\ last.act = "CoordCallTestgen" =>
          /\ solver_path = last.path
          /\ last_gate.n = last.gates
    /\ last.act = "CoordIndicateCompletion" =>
          /\ last_gate.n = last.gates + 1
          /\ last_gate.path = solver_path

\* C34 witness: indicate_completion handled after a call_testgen that was
\* given another path than the deliverable's; the gate looked at the
\* configured path
C34_Witness ==
    /\ last.act = "CoordIndicateCompletion"
    /\ tg_solver_path = "alt"
    /\ last_gate.path = "solver"

\* the position in the coordinator's transcript of its last assistant turn
\* that carries tool calls (0: none)
LastTurn ==
    LET S == {i \in 1..Len(Coord) :
                Coord[i].role = "assistant" /\ Coord[i].tool_calls # <<>>}
    IN IF S = {} THEN 0 ELSE CHOOSE i \in S : \A k \in S : k <= i

\* the tool_call events of the coordinator step in progress
StepCalls ==
    SelectSeq(log, LAMBDA e : e.event = "tool_call" /\ e.step = inner["coordinator"])

\* the run ended at call j of the last turn: the calls up to j were
\* dispatched in the order received and answered, those after j were not
EndedAtCall(j) ==
    LET calls == Coord[LastTurn].tool_calls IN
      /\ j \in 1..Len(calls)
      /\ calls[j] = last.call /\ calls[j].name = "indicate_completion"
      /\ \A k \in 1..j :
           /\ Coord[LastTurn + k].role = "tool"
           /\ Coord[LastTurn + k].tool_call_id = calls[k].id
      /\ Len(StepCalls) = j
      /\ \A k \in 1..j : StepCalls[k].subagent = Phase(calls[k].name)
      /\ pend["coordinator"] = SubSeq(calls, j, Len(calls))
      /\ log[Len(log)] = Event("done", "coordinator", inner["coordinator"], 0)

\* C35: when an indicate_completion of a turn with several tool calls gets
\* the verdict ready, the run ends at that call: the calls before it in the
\* turn were executed in the order received, the calls after it are never
\* executed, and neither a model request nor any other step follows
C35_ReadyCompletionCutsTurn ==
    /\ [](outcome = "done" =>
            /\ last.act = "CoordIndicateCompletion"
            /\ LastTurn > 0
            /\ EndedAtCall(Len(Coord) - LastTurn)
            /\ requests["coordinator"] = inner["coordinator"])
    /\ [](\A i \in 1..Len(log) :
            log[i].event = "done" => outcome = "done" /\ i = Len(log))
    /\ [][outcome = "done" =>
            UNCHANGED <<msgs, requests, log, fs, pend, pc, inner, outcome>>]_vars

\* C35 witness: the run ended at the second of three calls of one turn,
\* after the write that made the deliverable ready and before a run_shell
C35_Witness ==
    /\ outcome = "done"
    /\ LastTurn > 0
    /\ Len(Coord[LastTurn].tool_calls) = 3
    /\ Coord[LastTurn].tool_calls[1].name = "write_file"
    /\ Coord[LastTurn].tool_calls[3].name = "run_shell"
    /\ Len(Coord) = LastTurn + 2

\* log entry j closes the bracket the tool_call entry i opened: it is the
\* tool_return of the same call and no tool_call, tool_return or step_start
\* lies between them
Closes(i, j) ==
    /\ i < j
    /\ log[j].event = "tool_return"
    /\ log[j].step = log[i].step
    /\ log[i].subagent = Phase(log[j].subagent)
    /\ \A k \in (i + 1)..(j - 1) :
         log[k].event \notin {"tool_call", "tool_return", "step_start"}

\* no tool_call, tool_return or step_start follows entry i
OpenSince(i) ==
    \A k \in (i + 1)..Len(log) :
        log[k].event \notin {"tool_call", "tool_return", "step_start"}

\* an entry written by a nested loop, not by the coordinator on its behalf
NestedLoopEntry(e) ==
    \/ NestedEntry(e)
    \/ e.event \in {"researcher_mcp_tools_loaded", "researcher_mcp_discovery_failed",
                    "researcher_mcp_tool_called", "researcher_mcp_error"}

\* C36: in the event log every coordinator tool_call is followed by the
\* tool_return of the same call before the next tool_call or step_start;
\* the one exception is the indicate_completion that ends the run, followed
\* by done as the last event; while the run goes on, the call being handled
\* is the only one without its tool_return yet. Every entry of a nested
\* loop lies inside the bracket of a delegation
C36_CallsBracketed ==
    /\ \A i \in 1..Len(log) :
         log[i].event = "tool_call" =>
            \/ \E j \in (i + 1)..Len(log) : Closes(i, j)
            \/ /\ OpenSince(i)
               /\ \/ outcome = "running" /\ pc["coordinator"] \in {"dispatch", "blocked"}
                  \/ /\ outcome = "done"
                     /\ log[i].subagent = "coordinator"
                     /\ log[Len(log)].event = "done"
    /\ \A j \in 1..Len(log) :
         log[j].event = "tool_return" => \E i \in 1..(j - 1) : 
            log[i].event = "tool_call" /\ Closes(i, j)
    /\ \A k \in 1..Len(log) :
         NestedLoopEntry(log[k]) =>
            \E i \in 1..(k - 1) :
               /\ log[i].event = "tool_call"
               /\ log[i].subagent \in NestedRoles
               /\ \A m \in (i + 1)..k :
                    log[m].event \notin {"tool_call", "tool_return", "step_start"}

\* C37: every start_subagent entry whose delegation has returned is
\* followed, before that tool_return, by an entry of the nested loop of its
\* role (its prompt or a model call)
C37_StartSubagentMeansStarted ==
    \A i, j \in 1..Len(log) :
        (/\ log[i].event = "start_subagent"
         /\ i < j
         /\ log[j].event = "tool_return"
         /\ \A m \in (i + 1)..(j - 1) : log[m].event # "tool_return") =>
           \E k \in (i + 1)..(j - 1) :
              /\ NestedLoopEntry(log[k])
              /\ log[k].subagent = log[i].subagent

\* the tools through which a loop starts another loop
DelegationTools == {"call_coder", "call_testgen", "call_researcher"}

\* the chains of active loops the delegation structure allows
Chains ==
    {<<>>, <<"coordinator">>,
     <<"coordinator", "coder">>, <<"coordinator", "test_generator">>,
     <<"coordinator", "researcher">>, <<"coordinator", "coder", "researcher">>}

\* C38: delegation is acyclic and of bounded depth. The Coder can delegate
\* to the Researcher only, the TestGenerator and the Researcher to nobody;
\* the active loops form one of the chains coordinator, coordinator-Coder,
\* coordinator-TestGenerator, coordinator-Researcher and
\* coordinator-Coder-Researcher, so at most three loops are active and no
\* role is active twice
C38_DelegationAcyclic ==
    /\ Handlers("coder") \cap DelegationTools \subseteq {"call_researcher"}
    /\ Handlers("test_generator") \cap DelegationTools = {}
    /\ McpToolChoice \cap DelegationTools = {}
    /\ stack \in Chains
    /\ Len(stack) <= 3
    /\ \A i, j \in 1..Len(stack) : stack[i] = stack[j] => i = j
    /\ last.act \in Delegations =>
          /\ last.role \in {"coordinator", "coder"}
          /\ last.act = "CoderCallResearcher" <=> last.role = "coder"

\* C38 witness: three loops are active, the Researcher connecting to the
\* lookup provider on behalf of the Coder
C38_Witness ==
    /\ Len(stack) = 3
    /\ last.act = "CoderCallResearcher"
    /\ pc["researcher"] = "connect"

\* the last step handled a well-formed write_file call for `path`
WroteTo(path) ==
    /\ last.act \in {"CoordWriteFile", "ChatWriteFile"}
    /\ last.arg.kind = "valid"
    /\ last.arg.path = path

\* C39: write_file never creates or changes a file outside the working
\* directory: a path that resolves outside it is answered with an error
\* string, every file is left as it was and the loop goes on
C39_WriteFileStaysInside ==
    /\ fs["outside"] = "missing"
    /\ WroteTo("outside") =>
          /\ fs = last.fs
          /\ outcome = "running"
          /\ Top = last.role
          /\ Len(msgs[last.role]) = last.len + 1
          /\ LastMsg(msgs[last.role]) = ToolMsg(last.call.id, "Error writing file")

\* C39 witness: a write outside the working directory was asked for after
\* the deliverable had been written; both files are as before
C39_Witness ==
    /\ WroteTo("outside")
    /\ fs["solver"] = "ready"
    /\ LastMsg(msgs[last.role]).content = "Error writing file"

(***************************************************************************)
(* SingleAgent.run: one loop with write_file, run_shell and                *)
(* indicate_completion, no sub-agents.  It shares the tools and the        *)
(* Logger with MultiAgent; its transcript is session.messages.             *)
(***************************************************************************)
SingleRoles == {"single_agent"}
SingleToolChoice == {"write_file", "run_shell", "indicate_completion", "foo"}
SingleEvent(event, step) == Event(event, "single_agent", step, 0)

\* SingleAgent.run up to its loop: the start events, Session(...)
InitSingle ==
    /\ enable_researcher = FALSE
    /\ enable_tester = FALSE
    /\ max_steps \in 1..MaxSteps
    /\ call_budget = SingleCalls
    /\ own_logger \in BOOLEAN
    /\ fs = [p \in Locations |-> "missing"]
    \* solver_path = workdir / "solver.py"
    /\ solver_path = "solver"
    /\ tg_solver_path = "solver"
    /\ stack = <<"single_agent">>
    /\ pc = [r \in SingleRoles |-> "loop"]
    /\ inner = [r \in SingleRoles |-> 0]
    /\ pend = [r \in SingleRoles |-> <<>>]
    /\ msgs = [r \in SingleRoles |-> <<Msg("developer", "system_prompt")>>]
    /\ final_text = [r \in SingleRoles |-> ""]
    /\ parent = [r \in SingleRoles |-> 0]
    /\ requests = [r \in SingleRoles |-> 0]
    /\ log = <<SingleEvent("start", 0), SingleEvent("start_agent", 0)>>
    /\ serialized = 0
    /\ outcome = "running"
    /\ fault = "none"
    /\ returned = "none"
    /\ next_id = 1
    /\ calls_emitted = 0
    /\ last_gate = NoGate
    /\ dirty = {}
    /\ last = [act |-> "Init", role |-> "single_agent", call |-> NoCall, arg |-> NoArgs,
               len |-> 0, fs |-> [p \in Locations |-> "missing"],
               path |-> "solver", gates |-> 0]

\* for step_num in range(1, self.max_steps + 1): step_start,
\* session.get_response()
SingleStepStart ==
    /\ last' = Did("SingleStepStart", "single_agent", NoArgs)
    /\ Running("single_agent") /\ pc["single_agent"] = "loop"
    /\ inner["single_agent"] < max_steps
    /\ inner' = [inner EXCEPT !["single_agent"] = @ + 1]
    /\ requests' = [requests EXCEPT !["single_agent"] = @ + 1]
    /\ pc' = [pc EXCEPT !["single_agent"] = "await"]
    /\ log' = Append(log, SingleEvent("step_start", inner["single_agent"] + 1))
    /\ UNCHANGED <<config_vars, fs, path_vars, stack, pend, msgs, final_text, parent,
                   end_vars, env_vars, last_gate, dirty>>

\* except Exception as e: close_agent, raise AgentError(...)
SingleReplyFault ==
    /\ last' = Did("SingleReplyFault", "single_agent", NoArgs)
    /\ Running("single_agent") /\ pc["single_agent"] = "await"
    /\ Raise("AgentError", <<SingleEvent("close_agent", 0)>>)

\* if not message.tool_calls: the assistant text, the corrective user
\* message, continue
SingleReplyText ==
    /\ last' = Did("SingleReplyText", "single_agent", NoArgs)
    /\ Running("single_agent") /\ pc["single_agent"] = "await"
    /\ msgs' = [msgs EXCEPT !["single_agent"] =
                  @ \o <<Msg("assistant", "text"),
                         Msg("user", "ERROR: You must use the available tools")>>]
    /\ log' = log \o <<SingleEvent("llm_response", inner["single_agent"]),
                       SingleEvent("output_content_not_tool_error", inner["single_agent"])>>
    /\ pc' = [pc EXCEPT !["single_agent"] = "loop"]
    /\ UNCHANGED <<config_vars, fs, path_vars, stack, inner, pend, final_text, parent,
                   requests, end_vars, env_vars, last_gate, dirty>>

\* session.add_messages([{"role": "assistant", "tool_calls": message.tool_calls}])
SingleReplyCalls(names) ==
    /\ last' = Did("SingleReplyCalls", "single_agent", NoArgs)
    /\ Running("single_agent") /\ pc["single_agent"] = "await"
    /\ calls_emitted + Len(names) <= call_budget
    /\ LET calls == MakeCalls(names, next_id) IN
         /\ msgs' = [msgs EXCEPT !["single_agent"] = Append(@, AssistantCalls(calls))]
         /\ pend' = [pend EXCEPT !["single_agent"] = calls]
    /\ next_id' = next_id + Len(names)
    /\ calls_emitted' = calls_emitted + Len(names)
    /\ log' = Append(log, SingleEvent("llm_response", inner["single_agent"]))
    /\ pc' = [pc EXCEPT !["single_agent"] = "dispatch"]
    /\ UNCHANGED <<config_vars, fs, path_vars, stack, inner, final_text, parent,
                   requests, end_vars, last_gate, dirty>>

\* the loop over message.tool_calls is at a call of tool `name`
SingleAt(name) ==
    /\ Running("single_agent") /\ pc["single_agent"] = "dispatch"
    /\ CurCall("single_agent").name = name

\* if tool == "write_file"
SingleWriteFile(a) ==
    /\ last' = Did("SingleWriteFile", "single_agent", a)
    /\ SingleAt("write_file")
    /\ Handled("single_agent", WriteFileExecute(a, inner["single_agent"]), <<>>)

\* elif tool == "run_shell"
SingleRunShell(a) ==
    /\ last' = Did("SingleRunShell", "single_agent", a)
    /\ SingleAt("run_shell")
    /\ Handled("single_agent", RunShellExecute(a, inner["single_agent"]), <<>>)

\* else: session.add_messages([{"role": "user", "content": "ERROR: You set
\* done=true but solver file does not exist ..."}])
MissingSolver ==
    Append(msgs["single_agent"],
           Msg("user", "ERROR: You set done=true but solver file does not exist"))

\* elif tool == "indicate_completion": return solver_path if it exists,
\* else the error message and the next call of the turn
SingleIndicateCompletion ==
    /\ last' = Did("SingleIndicateCompletion", "single_agent", NoArgs)
    /\ SingleAt("indicate_completion")
    /\ IF fs[solver_path] # "missing"
          THEN /\ log' = log \o <<SingleEvent("done", inner["single_agent"]),
                                  SingleEvent("close_agent", 0)>>
               /\ serialized' = Serialized
               /\ outcome' = "done"
               /\ returned' = solver_path
               /\ stack' = <<>>
               /\ UNCHANGED <<msgs, pend, pc, fault>>
          ELSE /\ msgs' = [msgs EXCEPT !["single_agent"] = MissingSolver]
               /\ pend' = [pend EXCEPT !["single_agent"] = Tail(@)]
               /\ pc' = [pc EXCEPT !["single_agent"] = NextPc("single_agent")]
               /\ log' = Append(log, SingleEvent("missing_solver", inner["single_agent"]))
               /\ UNCHANGED <<end_vars, stack>>
    /\ UNCHANGED <<config_vars, fs, path_vars, inner, final_text, parent, requests,
                   env_vars, last_gate, dirty>>

\* else: content = "Error: Unknown tool"
SingleUnknownTool ==
    /\ last' = Did("SingleUnknownTool", "single_agent", NoArgs)
    /\ Running("single_agent") /\ pc["single_agent"] = "dispatch"
    /\ CurCall("single_agent").name \notin {"write_file", "run_shell", "indicate_completion"}
    /\ Handled("single_agent", Returns("Error: Unknown tool", fs, <<>>), <<>>)

\* the for loop is over: max_steps, close_agent, serialize, the path or None
SingleExhausted ==
    /\ last' = Did("SingleExhausted", "single_agent", NoArgs)
    /\ Running("single_agent") /\ pc["single_agent"] = "loop"
    /\ ~(inner["single_agent"] < max_steps)
    /\ log' = log \o <<SingleEvent("max_steps", 0), SingleEvent("close_agent", 0)>>
    /\ serialized' = Serialized
    /\ outcome' = "max_steps"
    /\ returned' = BestAvailable
    /\ stack' = <<>>
    /\ UNCHANGED <<config_vars, fs, path_vars, pc, inner, pend, msgs, final_text,
                   parent, requests, fault, env_vars, last_gate, dirty>>

NextSingle ==
    \/ SingleStepStart
    \/ SingleReplyFault
    \/ SingleReplyText
    \/ \E names \in CallSeqs(SingleToolChoice) : SingleReplyCalls(names)
    \/ \E a \in WriteFileArgs : SingleWriteFile(a)
    \/ \E a \in RunShellArgs : SingleRunShell(a)
    \/ SingleIndicateCompletion
    \/ SingleUnknownTool
    \/ SingleExhausted

SpecSingle == InitSingle /\ [][NextSingle]_vars

\* session.messages
Session == msgs["single_agent"]

\* the tool calls of the assistant turns of the session, and the tool
\* messages that carry the id of call c
TurnCallsOf(ms) ==
    UNION {{ms[i].tool_calls[k] : k \in 1..Len(ms[i].tool_calls)} : i \in 1..Len(ms)}
RepliesTo(ms, c) == {i \in 1..Len(ms) : ms[i].role = "tool" /\ ms[i].tool_call_id = c.id}

\* C40: when SingleAgent.run issues a model request, every tool call of
\* the assistant turns before it (write_file, run_shell, an unknown tool,
\* indicate_completion while the solver file is missing) has exactly one
\* tool message with its tool_call_id in the session
C40_SingleAgentAnswersEveryCall ==
    (stack = <<"single_agent">> /\ pc["single_agent"] = "await") =>
       \A c \in TurnCallsOf(Session) : Cardinality(RepliesTo(Session, c)) = 1

====
